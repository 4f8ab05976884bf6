# Formal models of databridge

TLA+ specifications of databridge, the TLC configurations that model-check them
on small instances, and theorems about them whose proofs TLAPS checks. Every
definition is translated from the source; `PROJECT.json` maps each one to the
lines it stands for (paths below are relative to `src/`, the repository).

To check: `tlc -config X.cfg M` for a row of the table of runs, `tlapm M.tla` for
a module of proofs.

## 1. The system

databridge stores connections to data sources, previews them, and exports the
records of a source to a data sink. It is one FastAPI process (the API), one or
more arq worker processes (the exports), PostgreSQL (connections, export jobs),
Redis (arq's queue), a browser page, and a script that relays records from the
user's own network.

```
 browser page ---HTTP---> API handlers ---SQL---> PostgreSQL <---SQL--- sweep loop
                               |                       ^
                             enqueue                   | status, heartbeat, counters
                               v                       |
                             Redis ---deliver---> run_export_job (arq slot)
                                                       |
                     source adapter --pages--> sample > extract > mask > assets > sink

 databridge-relay.py: API of the user --pages--> chunks ---HTTP---> relay session
```

### Components

State, operations, what is hard, and what makes it correct.

| Component | State | Operations | Hard | Correct when |
|---|---|---|---|---|
| Export jobs: table, API, worker, sweep (`export/db.py`, `routes/export_jobs.py`, `export/worker.py`, `export/sweep.py`) | rows of `export_jobs`; arq's queue; locals of each coroutine; the active-jobs gauge | create, retry, cancel, deliver, run, mark stale, purge | statuses are written by id alone by four parties; the quota is checked and used apart; deliveries repeat after a crash; timeouts bypass the except clause | a completed job's output is whole, a cancel is honoured, terminal statuses settle, the quota overshoot is bounded, nothing runs for ever, rows are purged |
| Source adapters (`adapters.py`) | none (the source) | count, fetch_page, preview, schema | four engines with their own orders, windows and partial listings; some errors are swallowed; the source changes between the count and the pages | an export has each row asked for once, as many as were counted, and what the preview showed |
| Sampling, extraction, masking, assets (`export/sampling.py`, `extraction.py`, `masking.py`, `asset.py`) | counters of the sampling buffer; stored assets | feed, extract, apply, resolve | steps computed by rounding; JSON inside strings; partial failure of assets | samples have their size and spacing; nothing a rule names leaves; references resolve |
| Sinks (`sinks/*_jsonl.py`, `*_zip.py`) | open file or buffer; skipped count | create_dataset, post_file, finalise | they differ in when output appears and what a rerun does to it | the ids in the row, or the download, lead to every record and every asset |
| TagMe and annotation sinks (`sinks/tagme.py`, `annotator_mock.py`, `routes/datasinks.py`) | token cache, datasets, task ids | log in, find or create a dataset, create and start a task | expiring tokens; look-ups that see a part and race creation; a second delivery over an open task | records are in a dataset of the name asked for, a started task is whole, no request has a dead token |
| Connections (`routes/connections.py`, `db/connections.py`) | rows of `connections` | create, patch, delete, ping, preview | read, merge and write are separate statements; a ping outlives an edit | edits are not torn, secrets survive, a status belongs to its credentials |
| Webhook (`export/webhook.py`) | a task that is not waited for | notify | sent once, after the status is final, also when the worker is about to die | what the receiver was told is what the row says |
| Authentication (`auth.py`, `routes/deps.py`) | none | identify the caller | role and org decide what a handler may touch | a caller acts on rows it may see |
| Demo mode (`db/demo_pool.py`) | dictionaries in place of tables, tasks in place of arq | the statements, by fragments of their text; the jobs | the patterns are tried in an order and do not parse SQL; nothing delivers or sweeps a job | every request is answered as PostgreSQL would, every job ends |
| Client-side relay (`client-side-relay/databridge-relay.py`) | loop variables; the session | create session, fetch, upload chunk, complete, abort | boundaries of pages, chunks, limits; lost replies | chunks are a prefix, completed means all, a session does not stay open unnoticed |
| Browser page (`static/browser.js`) | selected connection, preview | fetch and render | responses that arrive late | what is shown belongs to what is selected |
| Configuration, start-up, secrets; health, metrics, logging; migrations and packaging | read at start; counters | | | |

### How they interact

The API and the worker share no memory: they meet in the rows of `export_jobs`
and in arq's queue. Each handler and each coroutine runs single SQL statements,
or short transactions, and between two of them every other party may run. The
worker sees a cancel only by reading the status. The sweep loop is a task of the
worker process: it dies and restarts with it. The pipeline stages of a record
are plain calls, in the order sample, extract, mask, resolve assets, post.

The hazards that follow from this are listed, each at its line with the
properties that would catch it, in `PROJECT.json`.

## 2. Modules

| Module | Models | Extends or uses |
|---|---|---|
| `ExportJobs` | table, handlers, queue, worker slots, sweep, clock | |
| `JobLifecycle` | abstract life cycle of a job | |
| `ExportJobsProofs` | its invariants and the quota's, and that it implements `JobLifecycle`, proved | `ExportQuota`, `JobLifecycle` |
| `ExportQuota` | the org quota, with a history of rows that run again | `ExportJobs` |
| `MCExportJobs`, `MCExportQuota` | small instances | `ExportJobs`, `ExportQuota` |
| `ExportRun` | one job at the grain of a record: source, loop, sink | |
| `ExportRunProofs` | theorems about `ExportRun` | `ExportRun` |
| `Sampling` | `SamplingBuffer` | |
| `FieldPaths` | field extraction and masking as operators on values | |
| `RecordPipeline` | what happens to each record of a page | `Sampling`, `FieldPaths` |
| `RecordPipelineProofs` | theorems about `Sampling` and `RecordPipeline` | `RecordPipeline` |
| `MaskedRecords` | what masking is to achieve, and properties that say so | `RecordPipeline` |
| `MCRecordPipeline` | its small instances | `MaskedRecords` |
| `Sources`, `MCSources` | the four engines: schema, preview and export of a source at rest | |
| `SourcesProofs` | theorems about `Sources` | `Sources` |
| `Sinks`, `MCSinks` | jobs and their two sinks, the services behind these, the webhook | |
| `SinksProofs` | theorems about `Sinks` | `Sinks` |
| `Connections`, `MCConnections` | one connection and concurrent requests on it | |
| `ConnectionsProofs` | theorems about `Connections` | `Connections` |
| `Statements` | the SQL statements of the code: what they mean, and the fragments of their text that demo mode looks for | |
| `Queries` | the handlers that send them, over a pool that is a parameter | `Statements` |
| `SqlTables` | what SQL makes of a statement | `Statements` |
| `DemoPool`, `MCDemoPool` | what demo mode makes of it, and its jobs | `Statements`; `Queries` twice, `SqlTables` |
| `DemoPoolProofs` | theorems about `DemoPool` | `DemoPool` |
| `Relay`, `MCRelay` | one run of the relay script | |
| `RelayProofs` | theorems about `Relay` | `Relay` |

In most modules some definitions are introduced by a comment that begins with "Mutant".
These are not part of the model: each is the definition that follows with a plausible
bug, which is substituted for it to show that a property would notice. Every module with
a state has a `TypeOK`. Those of `ExportJobs`, `ExportRun`, `Sources`, `Connections`,
`Relay`, `Sinks` and `RecordPipeline` are proved, and the first is also checked by a
run; the others hold in the instances of the runs too. They are left out of the
configurations, since they say nothing besides.

### ExportJobs

An action is what happens between two awaits that touch shared state.

| Code | Model |
|---|---|
| columns `status`, `user_id` and `org_id`, `created_at`, `last_heartbeat_at`, `completed_at` | `status`, `owner`, `created`, `beat`, `done` |
| what the destination of a job holds | `out`: none, partial, whole |
| arq's queue and its retry counter | `queue`, `tries` |
| a handler between two of its statements | `hpc[c]`, `hjob[c]` |
| a coroutine of `run_export_job` between two awaits | `wpc[w]`, `wjob[w]`, `left[w]` (batches left), `cut[w]` (loop broken by a cancel) |
| `EXPORT_ACTIVE_JOBS` | `gauge` |
| `create_export_job` | `CreateCheck`, `QueueUnreachable`, `Insert`, `Enqueue`, `EnqueueFails` |
| `retry_export_job` | `RetryRead`, `RetryCheck`, then the same |
| `cancel_export_job` | `Cancel` |
| `count_active_jobs_for_org` (expires two kinds of rows, then counts) | `CountActive`, `Counted`, inside `Admit` |
| `run_export_job` | `Pickup`, `NoDatasink`, `MarkRunning`, `Setup`, `Batch`, `CheckCancelled`, `Finalise`, `Decide`, `Complete`, `SinkRaises`, `DbRaises`, `Fail`, `FailRaises`, `Release` |
| arq: tries exhausted, job timeout, restart of the process | `GiveUp`, `JobTimeout`, `Crash` |
| `mark_stale_jobs`, `ttl_purge_jobs` | `SweepMark`, `SweepPurge` |

A timestamp is an age in ticks, saturated one above the largest timeout: no query
of the code can tell two greater ages apart. `Tick` also saturates at once an age
that no query reads in the row's status, which keeps the state space small and
changes no guard. arq itself is external: what the model has of it is that a job
is not run by two slots at once, that an unfinished job of a dead process is
delivered again up to `max_tries`, and that a timed out job is not.

The statements of `run_export_job` that are outside its `try` (the read of the row, the
update for a missing datasink) and those in its `except` may raise too: arq is then done
with the job, and an update that raised may have been applied.

`ExportQuota` adds one history variable, `revived`: the jobs that became running again
after a terminal status. The worker's running update looks at no status, so that these
rows take a place in the quota that no request asked for.

`Batch` stands for a page: fetching, posting and the progress update. What is
inside it is `ExportRun` and `RecordPipeline`.

`JobLifecycle` has only the status and a stage per job: waiting (the queue, or
the request about to enqueue, has it), claimed (a worker runs it), out. It says
what the documentation's diagram would like to say and the code allows: only a
claimed job can leave a terminal status, a cancelled job is never claimed, a
pending job does not become completed. `ImplementsLifecycle` is the refinement,
with the stage as a function of queue, handlers and slots.

### ExportRun

One job, one page at a time and one record at a time. `source` is the set of
records the ordered query matches now; `SourceGains` and `SourceLoses` change it
between any two steps, at its end or elsewhere. `total`, `offset`, `page`, `full`,
`processed`, `skipped` are the locals of the loop; `rtotal`, `rprocessed`,
`rskipped` the columns. `kind` tells three sinks apart: `stream` writes each line
to a file that `create_dataset` truncates (local JSONL), `buffer` keeps everything
until `finalise` (ZIP and S3 JSONL), `remote` sends each record and cannot take it
back. A record's fate (kept, skipped by sampling, extraction or assets, not
serialisable) is nondeterministic here; `RecordPipeline` determines it.

### Sampling, FieldPaths, RecordPipeline

`Sampling` is `SamplingBuffer` with `ratio_or_size` as a fraction, Python's half-to-even
`round`, and a draw of `random.random()` as a choice. `FieldPaths` has values made of
objects, lists, leaves and texts that parse as JSON; it gives `extract_field` and
`apply_masking` as folds over a path: what the code does by recursion, from the record
down to a container and, for a string that held it, back up. `RecordPipeline` is the
body of the loop of `run_export_job`: feed, extract, mask, resolve assets, post.
`Candidates` is the schema walk behind `pii_candidate_fields`, from which a user takes
the rules of masking. `MaskedRecords` says what masking is to achieve, without the
algorithm: which scalars of a record are gone and which are left.

### Sources

`table` is the source, `request` what the user asked for, the rest what the schema
request, the preview and the export make of it. A timestamp is a number of ticks, of
which `SecondTicks` are a second: Trino is sent whole seconds, ClickHouse reads its
bounds as whole seconds (`Sent`). A row is its place in the listing of a
bucket, so that S3's samples of keys are prefixes of the rows. `Preview`, `Counts`
and the pages are sets of answers: an engine returns ties, and everything when there is
no ORDER BY, as it likes, and each S3 listing may fail. An error that comes out of an
adapter fails the step; one that the adapter swallows is noted in `swallowed`, which
the code does not have and the properties need. For a schema that is an error of its
last resort only, the query without a window: the failures of parts before it have to be
made good.

### Sinks

`plan[j]` is what a job asks for. The steps are those of `run_export_job` between two
requests to a service: ping, look-up, creation, each post, the uploads of `finalise`,
start of the task; first with the sink of the records, then with that of the assets.
`datasets`, `projects`, `tasks` are the service (TagMe, or the mocks), `objects` the
files and objects by path. Look-ups see a page of similar names (`Similar`, `ListPage`).
`token` is what a sink caches and `header` what the headers at hand carry: both are the
time that is left. `hook` is the webhook task after the worker has moved on; it ends
whenever it likes, or dies with the process. `PutFiles` puts what a sink holds in memory
one object at a time, the records' file first, and a crash or an error may come between
two. A stored asset says whose it is (`Asset`), so that an asset of another record under
the same name is told from the record's own. `StartTask`, `Complete` and what fails may
be followed by another delivery.

### Statements, Queries, SqlTables, DemoPool

The statements that `db/connections.py`, `export/db.py` and the routes send are records
(`Statements`), the handlers are operators from the tables and a request to the tables
and an answer (`Queries`), and the pool is their parameter. `SqlTables` runs a statement
by its meaning; `Dispatch` of `DemoPool` as `demo_pool.py` does: by the fragments it
looks for, in the order it looks for them, taking every `column = $n` of the text for a
filter or an assignment. A statement therefore also has the set of the fragments that
are in its text, spelled and spaced as there (a blank or comma is written `_`, which
keeps the literals within what the provers read): `status='cancelled'` and
`status_=_'cancelled'` are two. A handler waits for nothing in demo mode and is one
step; a task does: it is scheduled, then waits for the count, for the opening of its
sinks, for pages, and for their closing (`Start`, `CountTotal`, `Open`, `Page`, `Close`;
`Raise` wherever it waits). `AnswersAsSql` compares the two pools on every request the
bounds allow in every state that is reached: this is the refinement, with the column the
dictionaries do not have (`field_extraction`) read as FALSE and asked for by no new job.

### Connections

`row` is one connection, `req[r]` where a request is and what it has read. A
credentials payload is a function from the fields sent; `Parsed` is what the API
makes of it: the member of the pydantic union with most of the sent fields (the
union's choice is external: pydantic's "smart" mode), with its defaults filled
in. `Merge` is `patch_connection`'s rule that a blank field keeps the saved value.
`log` and `tested` record what the properties compare; the code stores neither.

### Relay

`at` is the place in `databridge-relay.py`; `position`, `pages`, `uploaded`,
`index`, `chunk` are its variables. The bridge it talks to is not in the
repository and is modelled as what it was told (`session`, `chunks`, `declared`,
`aborted`); `lost` records calls whose reply did not arrive. The source serves
records 1..total by any of the five kinds of pagination, with a cap on its pages
and a first page number of its own.

## 3. Runs

| Run | Configuration | Checks | States |
|---|---|---|---|
| `export_jobs_crash` | `MCExportJobsCrash` | `TypeOK`, `CompletedIsWhole`, `GaugeCountsRuns`, `CancelHonoured`, `SettledIsFinal`, `ImplementsLifecycle` | 370 thousand |
| `export_quota` | `MCExportQuota` | `OvershootBounded`, `RunningHasWorker` | 1.9 million |
| `export_jobs_live` | `MCExportJobsLive` | `NoStuckRunning`, `FinishedIsPurged`, `QueueDrains` | 55 thousand |
| `slow_batch_is_swept` | `MCExportJobsKeepAlive` | `WorkingIsNotSwept`: violated | |
| `export_run` | `ExportRun` | `WholeExport`, `MaxItemsHonoured`, `RunEnds` | 1.9 million |
| `record_pipeline` | `MCRecordPipeline` | `SizeIsExact`, `EvenlySpaced`, `MaskedAsConfigured`, `AssetsResolved`, `CandidatesMaskable` | 19 thousand |
| `sources` | `MCSources` | `ExportIsWhole`, `AsManyAsCounted`, `PreviewIsExported`, `SchemaSeesFields` | 600 thousand |
| `trino_failure_completes` | `MCSourcesAdapterError` | `AdapterErrorFails`: violated | |
| `sinks` | `MCSinks` | `OutputIsWhole`, `AssetsKept`, `StartedIsWhole`, `TokenIsLive`, `WebhookTellsRow` | 717 thousand |
| `connections` | `MCConnections` | `RacesLosePatchesWhole`, `StatusIsCurrent`, `SecretsKept`, `PatchesTakeEffect` | 182 thousand |
| `demo_pool` | `MCDemoPool` | `AnswersAsSql`, `RetryRepeats`, `EveryJobEnds` | 59 thousand |
| `relay` | `MCRelay` | `ChunksArePrefix`, `CompletedIsWhole`, `SessionIsClosed`, `RelayEnds` | 121 thousand |

### What they show, and why the bounds are enough

**Export jobs.** Up to two jobs, one or two clients of one org (a user and an
administrator), one or two slots, a quota of one. One job is enough for every
race of a cancel, a sweep, a crash and a second delivery; the second job is what a
quota of one and a second slot need. Timeouts of zero ticks are exceeded after one,
so that anything may become stale at any time: a longer timeout only removes
behaviours. All faults at once are too many states for two jobs, and the three passing
runs split them:

- `export_jobs_crash`: two jobs, one slot, two deliveries, over the output and the row
  the first one left; the process crashes, the datasink may be missing and the sink may
  raise, so that each of the four decrements of the gauge is taken.
- `export_quota`: two jobs, two clients and two slots; queue, configuration and sink
  fail, and a row may expire before the queue runs it.
- `export_jobs_live`: one job, two clients, three deliveries, two batches and every
  fault: the worker may die in each of them, and after the last one arq gives up.

`MaxBatches` of 1 gives a run a cancel check in the loop and the one after finalise, and
`Setup` may also choose none. `Jobs` and `Slots` are interchangeable (no action names
one), so that the two safety configurations use symmetry; the run with liveness does not.

- `CompletedIsWhole`: no completed status stands on partial output, although no
  status write of the worker looks at the status it replaces.
- `CancelHonoured`, `SettledIsFinal`: what is left of the terminal statuses. A
  cancel that arrives after a worker has the job may be overwritten, and a
  terminal row whose queue entry is still alive may run again; neither can happen
  otherwise.
- `OvershootBounded`: the quota is of pending and running rows together, and the
  documentation says it is atomic. Rows that have held their place since their insert
  and admitted requests exceed it by at most the other requests in flight. Rows that
  were run again after a terminal status (`revived`: expired, cancelled or finished, and
  still in the queue) come on top: one for each slot, and without a bound over crashes
  (section 5).
- `RunningHasWorker`: without crashes no error path leaves a row running.
- `GaugeCountsRuns`: what the gauge counts are the runs of the process, on all its
  paths. Its description promises another number (section 5). If a job times out or
  the database fails, it drifts for the life of the process; the property says so.
- `NoStuckRunning`, `QueueDrains`, `FinishedIsPurged`: see fairness below. What the
  quota check expires has no `completed_at` and stays; the property says so.
- `slow_batch_is_swept`: one slot, one sweep and a batch longer than the stale timeout
  suffice for the sweep to fail the job of a living worker in the middle of that batch
  (`InBatch`): the keep-alive runs between two batches, and writes nothing.

**One run.** Three records in pages of two: a full page, a partial one, and an
offset at the end. Limits of none and two: in the middle of a run, at the end of a
page. `WholeExport`: of a source at rest a completed export has each record once, in
order, or counted as skipped; of one that grows at its end, the counted records and at
most the rest of the last page; over crashes, cancels and redelivery, provided the sink
replaces its output. Of a source that loses records or gains them in the middle, the
code promises only `MaxItemsHonoured` and that the run ends.

**Record pipeline.** Thirty sampling configurations (each method with ten
ratios and sizes, on both sides of every rounding) on seven records of three
groups; three shapes of a record (native, JSON in a string, JSON in a string in a
string), five extraction paths and every list of up to two masking rules; asset
jobs of two records in which any field may be missing, blank or not a URL, or in
which the `data` a JSONL sink looks at is masked or hashed. Two
rules are enough for an order to matter; longer lists repeat it. `CandidatesMaskable`:
what the page offers for masking is found by masking, and all of it, although the two
walks are written apart; but for a key with a dot in it.

**Sources.** Seven sources of up to four rows: empty, with ties, rows of the same
second, broken lines, one and two formats; pages, previews and schema windows of two,
S3 listings of three keys: each limit lies below the largest source. Windows that are
open on either side, closed, and outside the data; every kind of column override; a
failing call at any step. `ExportIsWhole` holds where the pages have an order and the
listings see the bucket (`Ordered`, `SmallBucket`, `OneFormat`), and of ClickHouse for
the window cut to whole seconds (a second is two ticks, so that a bound may fall inside
one); without an order, `AsManyAsCounted` is what is left. `SchemaSeesFields`: the last
resort of a schema makes good whatever its parts did, raise or fail in silence.

**Sinks.** Sixty-nine plans, of up to two records each: every type of sink for the
records, every type for the assets of three of them, two assets of one job with one name
or with two, names that are there, that are not, and that are uuids; and pairs of jobs
with one destination. The batches are of one record, so that a cancel may come between
two. Two deliveries. Tokens of two and four ticks with a leeway of three, payloads that
take no time or three ticks: a token is found fresh, stale and dying. `TokenIsLive`
names the one request whose headers may be too old, the start of a task after its
upload. `StartedIsWhole`: a task that annotators see has the whole export, also when a
second delivery made it; it does not speak of cancelled exports, nor of those that
resolve assets, which leave out the records whose asset they could not get.
`AssetsKept`: the asset found where a job keeps them is the record's own, also when
records that were skipped, deliveries before and other jobs have stored theirs under its
name; in a directory beside a JSONL file, where a name has one file, unless another
record of the same export has an asset of that name.

**Demo mode.** Two ids, shared by connections and jobs, two callers of different orgs
and roles, a quota of one, pages of one row up to the third, one jump of the clock
beyond the timeouts. `AnswersAsSql` evaluates each of the possible requests in each
state, with rows of every status. Two bounds limit what is reached: connections
change, but for their deletion, only while there are no jobs, and a retry of a retry
needs a third id. The mutant of `AnswersAsSql` is a change of
wording: two blanks more in the statement that cancels a job. `EveryJobEnds` is what
stands in for arq and the sweep; it assumes that the calls to sources and sinks end.

**Connections.** Four requests, each of any kind, on one connection: enough for a
creation, an edit, a second edit in between, and a ping across both. The payloads
are those the edit dialog, the documentation and the time field picker send.
`RacesLosePatchesWhole`: the row is always the result of some of the patches,
applied whole and in order, with the last one among them; without a race, of all.
`PatchesTakeEffect`: a PATCH that nobody overtakes is read as a model that accepts it
with the most of its fields; the fields of that model take the values sent, its unsent
fields may be reset to their defaults, and nothing else changes. A field sent that the
model does not have is dropped, which is what happens to the time field picker's.

**Relay.** Some 3,650 runs: page sizes, caps and chunks that divide the number of
records and that do not, limits, `maxPages`, starts at zero and one, empty sources. Of
every source the chunks are complete but for the last, the number declared is that of
the records in them and within the limit, and no record is repeated or out of order,
unless a cursor that ends as an empty string starts the source over (`StartsOver`). That
no record is left out, `CompletedIsWhole` and `ChunksArePrefix` say where source and
pagination suit each other and the run starts at the beginning (`Suits`); the three ways
in which they do not suit are named there: the script has no way to notice them.
`SessionIsClosed`: a session stays open only if the script's call or its reply was lost.

### Fairness

- `Daemons`: the clock, and the two statements of the sweep loop. The loop sleeps a
  minute, swallows every exception, and restarts with the worker process
  (`export/sweep.py`, `src/worker/__main__.py`). `NoStuckRunning` and
  `FinishedIsPurged` need nothing else: no assumption on workers or clients.
- `Service`: weak fairness of the next step of each slot, and of arq dropping a job
  without tries. An event loop that stays up resumes its coroutines, and arq polls
  its queue. `QueueDrains` assumes it explicitly.
- `FairSpec` of `ExportRun`: the coroutine's own steps; no fairness for changes of
  the source, cancels or faults.
- `Relay`: the script is one thread and each of its calls has a timeout of its own.
- `DemoPool`: weak fairness of `Start`, since the event loop runs what is ready. That
  the calls a task waits for end is an assumption of `EveryJobEnds` itself (`CallsEnd`),
  not of the specification: requests have timeouts, but Trino's count and pages follow
  `nextUri` for as long as there is one (`adapters.py:437`), and demo mode has no
  `job_timeout`.
- `Sampling`, `RecordPipeline`, `Sources`, `Sinks` and `Connections` have no liveness
  and no fairness.
- No request is ever assumed to be made.

## 4. Proofs

| Theorem | Module | Says |
|---|---|---|
| `TypeCorrect` | `ExportJobsProofs` | `Spec => []TypeOK` |
| `CompletedCorrect` | `ExportJobsProofs` | `Spec => []CompletedIsWhole` |
| `RunningHolds` | `ExportJobsProofs` | `Spec => []RunningHasWorker` |
| `GaugeHolds` | `ExportJobsProofs` | `Spec => []GaugeCountsRuns` |
| `OvershootHolds` | `ExportJobsProofs` | `QSpec => []OvershootBounded` |
| `LifecycleImplemented` | `ExportJobsProofs` | `Spec => ImplementsLifecycle` |
| `CancelHolds` | `ExportJobsProofs` | `Spec => CancelHonoured` |
| `SettledHolds` | `ExportJobsProofs` | `Spec => SettledIsFinal` |
| `SampleIsPrefix` | `RecordPipelineProofs` | `SamplingSpec => []FirstOfSize` |
| `SampleIsExact` | `RecordPipelineProofs` | `SamplingSpec => []SizeIsExact` |
| `SampleIsEven` | `RecordPipelineProofs` | `SamplingSpec => []EvenlySpaced` |
| `SamplerType` | `RecordPipelineProofs` | `SamplingSpec => []SamplingType` |
| `SamplesAlike` | `RecordPipelineProofs` | `Spec => SamplingSpec` |
| `ExportsSample` | `RecordPipelineProofs` | `Spec => []FirstOfSize /\ []SizeIsExact /\ []EvenlySpaced` |
| `AssetsHold` | `RecordPipelineProofs` | `Spec => []AssetsResolved` |
| `PipelineType` | `RecordPipelineProofs` | `Spec => []TypeOK` |
| `WholeHolds` | `ExportRunProofs` | `Spec => []WholeExport` |
| `MaxItemsHolds` | `ExportRunProofs` | `Spec => []MaxItemsHonoured` |
| `TypeCorrect` | `ExportRunProofs` | `Spec => []TypeOK` |
| `ExportHolds` | `SourcesProofs` | `Spec => []ExportIsWhole` |
| `CountHolds` | `SourcesProofs` | `Spec => []AsManyAsCounted` |
| `PreviewHolds` | `SourcesProofs` | `Spec => []PreviewIsExported` |
| `SchemaHolds` | `SourcesProofs` | `Spec => []SchemaSeesFields` |
| `TypeCorrect` | `SourcesProofs` | `Spec => []TypeOK` |
| `OutputHolds` | `SinksProofs` | `Spec => []OutputIsWhole` |
| `AssetsHold` | `SinksProofs` | `Spec => []AssetsKept` |
| `StartedHolds` | `SinksProofs` | `Spec => []StartedIsWhole` |
| `TokenHolds` | `SinksProofs` | `Spec => []TokenIsLive` |
| `WebhookHolds` | `SinksProofs` | `Spec => []WebhookTellsRow` |
| `TypeCorrect` | `SinksProofs` | `Spec => []TypeOK` |
| `RacesHold` | `ConnectionsProofs` | `Spec => []RacesLosePatchesWhole` |
| `StatusHolds` | `ConnectionsProofs` | `Spec => []StatusIsCurrent` |
| `SecretsHold` | `ConnectionsProofs` | `Spec => SecretsKept` |
| `EffectHolds` | `ConnectionsProofs` | `Spec => PatchesTakeEffect` |
| `TypeCorrect` | `ConnectionsProofs` | `Spec => []TypeOK` |
| `DemoAnswersAsSql` | `DemoPoolProofs` | `Spec => []AnswersAsSql` |
| `DemoRetryRepeats` | `DemoPoolProofs` | `Spec => []RetryRepeats` |
| `WholeHolds` | `RelayProofs` | `Spec => []CompletedIsWhole` |
| `PrefixHolds` | `RelayProofs` | `Spec => []ChunksArePrefix` |
| `SessionHolds` | `RelayProofs` | `Spec => []SessionIsClosed` |
| `TypeCorrect` | `RelayProofs` | `Spec => []TypeOK` |

**ExportJobs.** For every set of jobs, clients and slots, every timeout, number of
tries and batches, and every choice of faults. Assumed of the constants: NULL is
neither an id nor a number, roles are the three of `auth.py`, limits are natural
numbers, the quota and the tries positive, and jobs, clients and slots are finitely
many (so that they can be counted). `CompletedIsWhole` is not inductive: a
slot that is about to complete may be at any place with any output. `OutputInv`
adds that

1. one slot at a time holds a job (`Exclusive`);
2. a loop broken by a cancel keeps its row cancelled up to the check that follows
   finalise, which is what keeps a truncated run from completing: no other party
   takes a row out of cancelled while a slot holds it;
3. a run that may complete has written all of its output;
4. a run under way is of a row that does not say completed, so that truncating the
   output in `Setup` breaks no promise.

The argument separates what a slot does to its own job (`RunOwnOutput`) from what
requests, other slots, sweep and clock may do to it (`BystanderOutput`), with frame
lemmas that say which parts of the state each of them leaves alone.

`RunningHasWorker`, `GaugeCountsRuns` and `OvershootBounded` are inductive together
with `TypeOK`. For the first two, each step of a slot is compared with what it does
to the slot's own place. For the third, a request is admitted only when it counts
fewer than `MaxActive` active rows, at which moment at most all requests of the org are
admitted with it; an insert trades an admitted request for a row; a running update
either finds its row active or adds it to `revived`; and everything else only shrinks the
two sets. `Counted`, which takes the expired rows out, bounds the rows that are left.

**The life cycle.** `StageInv` adds to `OutputInv` what the stages rest on: whatever
is queued, or about to be, has been inserted; a job that a slot holds is still
queued, since only the holder has arq drop it; and a run under way has left
pending. With it the stage of a held job follows from the place of the one slot that
holds it (`HeldStage`), the other jobs keep theirs (`RunOthers`), and each step of a
slot is a claim, a write, a return or a drop of its job (`OneJob`). An expiry by the
quota check and by the sweep is `Expire`, a crash `Return` of all claimed jobs.
`CancelHonoured` and `SettledIsFinal` are then shown of a step of the life cycle
(`LifecycleKeeps`), without looking at handlers, slots or queue again.

**Sampling.** For every configuration and every set of groups. The inductive
invariant is `SamplingType /\ FirstOfSize /\ SizeIsExact`: the sample of a given
size needs both, since whether the next record is kept depends on the count and
which were kept depends on the records before. The arithmetic lemma behind it
(`StepIsOne`) is that the systematic step, the seen records over the size rounded
up, is one as long as the size has not been reached: a systematic sample of N
records is therefore the first N, not N spread over the source. For a ratio the
invariant is `AtSteps`: the places kept are those that leave one when divided by the
step. After such a place m the next one is m plus the step (`NextPlace`), and the step
is one over the ratio to the nearest half (`Rounded`, `StepIsRatio`), which is
`EvenlySpaced`. The hypothesis that the step is above one is
needed: `seen % 1 == 1` never holds, so a ratio that rounds to a step of one, but is
not one, keeps nothing (see 5).

**The record pipeline.** For every set of jobs: records of any shape, lists of rules,
paths, lists of URL fields, files and failures. Assumed: a record has one of the groups
of its sampler, and no field is listed twice among those with URLs; a job without
sampling samples at the ratio 1. A step feeds the sampler the next record or does
nothing to it (`StepFeeds`), so that the record pipeline implements `Sampling`, and what
is proved of samples holds of every export. What extraction and masking make of a record
does not matter for the rest, so that they stay closed terms in the proof.

`AssetsResolved` needs to know what was stored before: `PostedInv` says of each posted
record that it is its masked content with the references in place of the URLs, that
all its URLs could be fetched, and that their files have their content (`Refers`). A
later record may write those files again, also when it fails halfway; without two
URLs of one name it writes the same content (`StoredIs`, `FilesStay`).

**One run.** For every finite set of records, page size, set of limits, number of
deliveries, kind of sink, and every choice of fates, faults and changes of the source.
Assumed: records are numbers in the order of the query, a page holds at least one, NULL
is no number. `MaxItemsHonoured` needs `LimitInv`: what a delivery has processed bounds
its buffer, and a streamed file, at every place of the loop, and the loop stops in
front of a page as soon as the limit is reached.

`WholeExport` rests on the place (`Rank`) of a record in the order. As long as the
source has at most grown at its end, a record keeps its place; so the records a delivery
has worked on, written, lost or skipped, are the first so many of the source, those
written are among them and in order, and a page goes on where they end (`LoopInv`); the
total that was counted bounds where the last page ends (`CountedInv`). `EndInv` says
what that amounts to once the loop has ended, `DoneInv` of a completed row. A cancel
that truncates the loop leaves a row that cannot complete (`RowInv`), and each delivery
begins with an output that is replaced. `Sorted` is any increasing enumeration of a set;
that there is one is proved, by counting (`SortedExists`).

**Sources.** For every set of sources of any length and content, every request, size of
pages, previews, listings and windows, and every choice of faults. Assumed: the columns
of a source have a time for each row, the S3 readers are distinct, NULL is no number and
no name, sizes are positive.

`LoopInv` says what the export has after each page: as many records as pages of that
offset hold, and, of an engine whose order stays, the rows at the places before the
offset in some order of the pages (`PageOrders`). One page more then is a slice of that
same order (`PageMore`, `SliceOf`), because there is only one: without ties the place of
a row is the number of rows that are not after it (`PlaceIn`, `PlaceOf`, `OneOrder`),
which is also how an order is shown to exist (`SortExists`). Langfuse counts its pages
instead of rows, which is the same since offsets are multiples of the page size
(`OffsetInv`, `Quotient`). For S3, count, preview and pages look for their rows in
different listings: a scan that raises nothing reads what the first reader with files
finds (`ScanOk`), and in a bucket that one listing holds, a sample finds what the glob
does (`SmallIs`, `SampleIs`, `CountFinds`). `ShownInv` says of the preview what the export
is compared with. `FallbackIs` and `SchemaIs` follow the parts of the window: whatever
they find, and however they fail, an empty result falls back to a query that sees a row
if there is one, raises, or is the one failure `SchemaSeesFields` excepts.

**Sinks.** For every set of jobs, plans of any length, names, services with any number
of datasets and projects, lifetimes and delays, tries and faults. Assumed: NULL is no
number, name or type of sink, names are strings, the exchange of a token is given up
before its leeway and before the token ends. A step of one job leaves the others'
variables alone (`Others`), so that each invariant has to be shown of the job that
moves; what it shares with the others is the service, of which `Grown` says all they
need: lists only get longer, a file never loses an entry, and nobody changes another
job's task.

`TokenIsLive`: a token in the cache always has more time left than the cache will use it
for (`TokenOK`), which no exchange, page or upload that makes it older changes, and
`Control` says that a dead header is met at the start of a task only. `WebhookTellsRow`:
the webhook task carries what the row says, and as long as no second delivery has begun
the row is not written again (`Notified`). `StartedIsWhole`, by `WholeInv`: what the
sink has gathered, in its buffer or its dataset, has every record the loop is past, and
at the start of the task all of them, unless the loop was broken by a cancel;
`StartedInv` says the same of every task that is started, by whichever delivery. That
rests on `ReadyInv` (a sink for annotation that is set up has its project, and the
mock's its dataset), `OwnInv` (the task a sink knows is its job's) and `TasksInv`.

`OutputIsWhole` and `AssetsKept`, by `OutputInv`: of each sink of a job, whatever its
type, what it has gathered by now has everything that was posted to it (`Gathering`: in
memory, in its archive, its file, its dataset or its task), through the stages of its
life: about to be opened, open, finalised, closed, at rest (`Placing`, `Opened`,
`Filled`, `Closed`, `Sealed`), and from the last of them on its id shows all of that to
a reader (`Shows`). What a sink in memory has put and what it has left to put are taken
together (`Putting`). For assets it is each record's own entry that has to be there
(`Owed`); beside a JSONL file, the file of its name holds that entry unless another
record of the export has one of that name (`Beside`, `Sole`). A step that is not the
sink's own work keeps it: lists only grow, and its task, its dataset and its file are
left alone (`Keeps`), while it gets no further itself (`Onward`). Nobody else writes its
file because a path has the type, the destination and the job in it (`Own`, `MemInv`,
`Wrote`), which fails for two sinks of one job that are of one type and go to one place;
the properties leave these out (`Clash`, section 5). A step of the sink at work takes it
to the next stage (`WorkShows`). `PlacesInv` says the rest of each place: nothing is
posted or buffered before the first record, the mock's project is one made for a plain
name, and a completed job is at rest.

**Connections.** For every set of requests, payloads and models of credentials, over
every interleaving. Assumed: payloads have finitely many fields, and one of the models
requires none, so that every payload is accepted. `FreshInv`: a request that nobody has
overtaken has read the credentials that are in the row. From it follow that the status
is that of the credentials (`StatusHolds`), and what a PATCH that was not overtaken may
change (`WrittenCreds`, from which `SecretsHold` and `EffectHolds`). `RaceInv` is
`RacesLosePatchesWhole` with its witness for the row and for each request that has
read: the set of patches that were merged, one after the other, into what it read. The
merges are a recursive function of the log, `Applied`; `MadeMore` says what a write
more makes of it.

**Demo mode.** For every set of callers and submissions, every quota, timeout and size of
a page. Assumed: these three are positive, NULL is no number, and a submission has its
eight fields. The dictionaries have no column for the field extraction, so that a new job
that asks for it is answered as the database would answer one that does not
(`WithoutExtraction`, section 5).

`Tables` is what the dictionaries are at any time: functions from ids that have been
given to rows, each with all columns of its table, its own id, and a time of creation
that is past and that no other row of the table has. The fragments that are in each
statement's text lead to the method meant for it (`Dispatched`). From both, each
statement is shown to be `Alike`: the dispatcher picks the branch whose result is that
of the SQL, finds each parameter in its place, and leaves what shows (`Shown`) as the
database's tables. That is one lemma per statement; for those whose text depends on the
request (the filters of a list, the columns of a PATCH) it is for all of them at once
(`ListAlike`, `PatchAlike`). A list needs in addition that rows can be put in the order
of their times (`NewestIs`, by counting the newer ones). A handler sends its statements
to the tables that the one before left, so that each is the `Same` over both pools, and
with them every request (`PerformSame`) and, `Tables` being kept, every step.
`PerformSame` is about any tables, so that the bounds in the guards of the actions do
not limit what it says.

`RetryRepeats` needs `Repeating`: the jobs in `retryOf` are there, and each row is
`Complete`, that is, filling in the places of its assets again changes nothing. No
statement but the INSERT sets a setting (`KeepUpdate`, for every UPDATE by the columns it
names), the INSERT adds one row, and a row it adds is complete (`FilledAgain`), so that a
copy of its settings is filled in to the same.

**Relay.** For every set of runs: any numbers of records, page sizes, caps, chunk sizes,
limits, first pages and starts. Assumed: sizes are positive, a page number is not below
the first. `SessionIsClosed` follows from what the script knows of its session at each
place (`SessionInv`), `Contiguous` from `ShapeInv`: chunks 0 to `index` - 1 are there
and full, and the counter is what is in them and at hand. What holds of every source is
`LimitInv` and `OrderInv`: what has been collected is in order and comes before the rest
of the page, which is in order, and that before the position of the next page, because
no pagination but a cursor that ends as an empty string goes back (`NextBehind`). For
the contents of a source that suits, `SourceInv` relates the position that is asked for
next to the number of records relayed, over the five kinds of pagination and the stops
of each; `ContentInv` names the record at each place of a chunk, of the one at hand and
of the rest of the page; `CountInv` bounds the counter by what is wanted, and says when
they are equal. `Relayed` is given in closed form, by quotient and remainder of a place
and the chunk size.

**Only model-checked.** Liveness (`NoStuckRunning`, `QueueDrains`, `FinishedIsPurged`,
`RunEnds`, `EveryJobEnds`, `RelayEnds`): the prover does not handle fairness.
`MaskedAsConfigured` and `CandidatesMaskable`: they speak of all scalars of a value, at
any depth, which takes recursion on data. `TypeOK` of `DemoPool` is not proved as a
whole: its ids are among `Ids` by the bounds of the model alone, and what the other
proofs need of it is in `Tables`. The two properties expected to be violated are
counterexamples that TLC finds.

## 5. Where code and documentation part

Shown by a run (`PROJECT.json`, findings):

1. `export/worker.py:249`: a batch longer than the stale timeout makes the sweep fail
   the job of a living worker; the keep-alive resets a local timer and writes no
   heartbeat (`002 spec.md:161`).
2. `adapters.py:447`: a Trino statement that ends as FAILED counts as an end of the
   rows, and the job completes (`export-pipeline.md:28`).

Seen while modelling, and modelled as the code has it, without a run of their own.

Export jobs:

- The quota of pending and running jobs is not atomic: its lock is released before the
  insert (`routes/export_jobs.py:93`; `export-pipeline.md:52`). Nor does it hold of jobs
  that the worker runs after they expired (`worker.py:74`): `OvershootBounded` sets them
  apart, since their number has no limit.
- Jobs expired by the quota check get no `completed_at` and are never purged
  (`export/db.py:292`; `002 spec.md:163`).
- Retry drops `field_extraction` (`routes/export_jobs.py:181`; `002 spec.md:39`).
- Records a sink could not write are added to the skipped count after the row was
  last written, so the row never shows them (`export/worker.py:253`; `002
  spec.md:103`).
- A failed enqueue leaves a pending row without a queue entry
  (`routes/export_jobs.py:115`; `export-pipeline.md:25`).
- A worker may overwrite any terminal status (`worker.py:74`;
  `docs/architecture.md:97`), also that of a failed job the user has retried
  (`worker.py:266`; `002 spec.md:133`).
- A cancelled job that finalises its sinks starts its annotation task, and becomes
  failed when that raises (`worker.py:254`).
- A job that fails before its columns are read tells no webhook (`worker.py:301`).
- The gauge of active exports, described as "running + pending", counts the runs of one
  process: pending jobs are left out, and so are running rows whose worker died
  (`worker.py:75`; `export_metrics.py:22`). `GaugeCountsRuns` states what the code does.
- A delivery that finds an empty source leaves the counters of the one before in the
  row (`worker.py:235`; `002 spec.md:55`).

Records:

- A systematic sample of a size is the head of the source, not every N-th record of it:
  the step is computed from the records seen so far (`export/sampling.py:41`, against its
  comment in line 40 and `sampling.md:28`). `SampleIsPrefix` proves that of the code, and
  no run states what the comment promises.
- A systematic ratio above 2/3 and below 1 keeps nothing (`export/sampling.py:49`;
  `sampling.md:28`).
- Extracted content that is a list fails the job (`sinks/local_jsonl.py:45`; `004
  spec.md:90`).
- A key with a dot in it is offered for masking and not found (`adapters.py:163`,
  `export/masking.py`).

Sources:

- Pages by offset miss records when others are deleted meanwhile (`worker.py:184`;
  `export-pipeline.md:27`).
- Trino's pages have no ORDER BY, so that they may overlap (`adapters.py:548`).
- The bounds of windows are cut to whole seconds, by `strftime` for Trino and by
  `parseDateTimeBestEffort` for ClickHouse (`adapters.py:312`, `:353`, `:392`): records
  before the start of a window are exported, and records before its end are not, if they
  share its second.
- Trino's `nextUri` is followed for as long as there is one (`adapters.py:437`): each
  request has a timeout, their number has no limit. In a worker, `job_timeout` ends it;
  in demo mode nothing does.
- S3 counts every key the glob finds and reads a sample of keys; and it takes the first
  reader that does not raise, not the first that returns rows (`adapters.py:909`;
  `docs/architecture.md:130`).
- A schema request with a start and no end raises (`adapters.py:269`).
- ClickHouse drops lines that do not parse, so that fewer records come than were
  counted.

Sinks:

- A second delivery opens a second task (`sinks/tagme.py:222`; `tagme.readme.md:26`).
- The headers of the start of a task are older than the upload before it, and may have
  expired (`tagme.py:253`; `tagme.readme.md:61`). The dataset mock never renews its
  token.
- `routes/datasinks.py` never calls `set_actor`, without which a TagMe sink raises
  (`tagme.py:63`).
- A JSONL sink takes a record whose `data` field is a text for an asset, and fails the
  job when the text is not hexadecimal (`sinks/local_jsonl.py:46`). In an archive,
  two records whose template gives one name have two entries of it; records and assets
  that are given the same file replace each other. Beside a JSONL file, two records of one
  export whose URLs end alike share one asset, the later one's (`sinks/s3_jsonl.py:94`).

Connections and demo mode:

- A PATCH resets fields it does not name to the defaults of the credentials model
  (`routes/connections.py:192`; `openapi.yaml:618`).
- Of two concurrent PATCHes one is lost (`routes/connections.py:188`;
  `openapi.yaml:618`), and a late ping overwrites the untested status of an edit
  (`connections.py:267`; `001 data-model.md:410`).
- The time field picker saves nothing: `timestamp_column` is no field of any
  credentials model (`static/browser.js:385`, `connections.py:193`).
- Demo mode runs export jobs as tasks of the API process (`demo_pool.py:349`);
  `src/README.md:76` says that no worker processes them and that they stay pending.
  `EveryJobEnds` states what the code does.
- `demo_pool.py:201` names seventeen parameters of the insert and stores as many; the
  statement has nineteen, so that demo mode forgets a job's `field_extraction`. The
  statements of the sweep are not answered.

Relay and page:

- `--limit 0` relays one record (`databridge-relay.py:37`), and a cursor that ends as
  an empty string starts the source over for ever unless `maxPages` is set.
- The schema and preview that arrive after the user has selected another connection
  are shown as that one's (`static/browser.js:195`), and the preview of a connection
  selected meanwhile is not asked for (`:718`).

## 6. Not modelled, and why

- Downloads (but for the name they look for) and single reads of a job: they change no
  state.
- The HTTP and DuckDB calls of the four engines, the layout of archives, encryption of
  credentials, the rendering of a webhook's payload and the route that tests one: data,
  not control. `ping` and `test` change a status only, which is in `Connections`.
- `detect_asset_url_fields`: it suggests settings to a user.
- In `FieldPaths`, lists of rules in which one drops a list element that a later one
  names (the elements are renamed; `MaskedAsConfigured` leaves them out), and in
  `AssetsResolved`, two URLs whose last segments are equal (they share a file).
- A source that changes under the engines of `Sources`: `ExportRun` has one, of an
  engine whose pages are ordered.
- In `Sinks`, the table and the queue of `ExportJobs`: a delivery there is the next one
  of the same row. No job is swept.
- In `DemoPool`, the sinks and sources of a job, whose calls are the waits of its task.
- In `Relay`, `--dry-run`, building of requests and selection of records in a reply.
  `swagger-to-config.py` writes a file once, from a file.
- Decoding of headers and tokens in `auth.py`: stateless. What a caller's role allows
  is in `ExportJobs` and `Queries`.
- Health, metrics other than the gauge, logging, configuration, start-up, migrations:
  sequential, or counters that are only incremented.
- The browser page, in JavaScript: rendering and event handlers around the API. What it
  sends is among the inputs of the handlers; two of its races are in section 5.

## 7. Plan

Done, in this order: the life cycle of export jobs and its abstract specification;
one run at the grain of records; the record pipeline; connections; the relay; all
safety properties and the refinement of export jobs proved, and exact samples; the
source engines; the sinks with TagMe, the mocks and the webhook; demo mode against SQL;
all safety properties of samples, of one run, of the source engines, of the sinks, of
connections, of demo mode and of the relay proved, and of the record pipeline that its
sampler is one and its assets resolve.

Left to TLC, for the reasons at the end of section 4: liveness, the masking of records.

Next, models: `Sinks` composed with the deliveries of `ExportJobs`, and a source that
changes under the engines of `Sources`.
