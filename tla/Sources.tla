------------------------------- MODULE Sources -------------------------------
(***************************************************************************)
(* The data source adapters (adapters.py) as their callers use them: the   *)
(* page reads the schema of a connection and a preview, and a worker       *)
(* exports what the preview showed, count first and then page by page.     *)
(* Each engine answers its own way, and some lose rows without an error.   *)
(*                                                                         *)
(* The source is at rest: ExportRun has one that changes. A row is its     *)
(* place in the listing of the bucket, where each row is a file of its     *)
(* own. Times are ticks, SecondTicks of them to a second. A definition     *)
(* introduced by "Mutant" is the next one with a plausible bug.            *)
(***************************************************************************)
EXTENDS Naturals, FiniteSets, Sequences, SequencesExt

CONSTANTS
  NULL,
  Engines,       \* the types of source in the registry
  Tables,        \* what the source may hold: see TableType
  Requests,      \* what the user may ask for: see RequestType
  Saved,         \* the timestamp_column of the connection's credentials
  Now, Day,      \* the clock, in ticks, and timedelta(days=1)
  SecondTicks,   \* ticks in a second
  Windows,       \* the parts schema cuts its window into
  PreviewLimit,  \* PreviewRequest.limit
  SchemaLimit,   \* rows of a preview without a window
  BatchSize,     \* settings.export.batch_size
  Readers,       \* formats, in the order of _READERS
  PeekKeys, SampleKeys, ListPage, MaxPages,  \* the bounds of the S3 listings
  Faults         \* the faults that may happen

AllEngines == {"clickhouse", "trino", "langfuse", "s3"}
\* "call": a request raises. "query": Trino ends a statement as FAILED. "list": an
\* S3 listing raises. "reader": DuckDB raises on the files of a format.
AllFaults == {"call", "query", "list", "reader"}
Columns == {"timestamp", "created"}
\* A name that is not an identifier, an identifier no table has, no column at all.
Names == Columns \cup {"not an identifier", "missing", ""}

Rows == UNION {1..Len(t.format) : t \in Tables}
\* broken: rows whose line, or file, does not parse.
TableType ==
  [time : [Columns -> Seq(Nat)], hits : SUBSET Nat, broken : SUBSET Nat, format : Seq(STRING)]
RequestType ==
  [query : BOOLEAN, start : Nat \cup {NULL}, end : Nat \cup {NULL},
   field : Names \cup {NULL}, sort : Names \cup {NULL}]

ASSUME NullAssumption == NULL \notin Nat \cup Names /\ NULL # {}
ASSUME DataAssumption ==
  /\ Engines \subseteq AllEngines /\ Faults \subseteq AllFaults
  /\ \A t \in Tables : t \in TableType /\ \A c \in Columns : DOMAIN t.time[c] = DOMAIN t.format
  /\ Requests \subseteq RequestType /\ Saved \in Names
  /\ Readers \in Seq(STRING) /\ IsInjective(Readers)
ASSUME SizesAssumption ==
  /\ {SecondTicks, Windows, PreviewLimit, SchemaLimit, BatchSize} \subseteq Nat \ {0}
  /\ {PeekKeys, SampleKeys, ListPage, MaxPages} \subseteq Nat \ {0}
  /\ Now \in Nat /\ Day \in 0..Now

VARIABLES
  engine, table, request,
  pc,
  fields,   \* the rows schema looked at, NULL when it raised
  shown,    \* the rows of the preview, NULL when it raised
  told,     \* its total_count
  total,    \* records_total of the job
  offset,
  got,      \* the records the job has read
  swallowed \* the calls in which an error did not come out: "schema" (in the query that
            \* was its last resort), "preview", "export"

givenVars == <<engine, table, request>>
vars == <<givenVars, pc, fields, shown, told, total, offset, got, swallowed>>

\* Every variable has its type.
TypeOK ==
  /\ engine \in Engines /\ table \in Tables /\ request \in Requests
  /\ pc \in {"browsing", "listed", "counting", "fetching", "done", "failed"}
  /\ fields \in {NULL} \cup SUBSET Rows
  /\ shown \in Seq(Rows) \cup {NULL} /\ got \in Seq(Rows)
  /\ {told, total, offset} \subseteq Nat
  /\ swallowed \subseteq {"schema", "preview", "export"}

Init ==
  /\ engine \in Engines /\ table \in Tables /\ request \in Requests
  /\ pc = "browsing"
  /\ fields = NULL /\ shown = NULL /\ told = 0
  /\ total = 0 /\ offset = 0 /\ got = <<>>
  /\ swallowed = {}

-----------------------------------------------------------------------------
(* Statements                                                              *)

Keys == DOMAIN table.format

\* _safe_ident: anything but an identifier is replaced by the default.
SafeIdent(raw, default) == IF raw \in Columns \cup {"missing"} THEN raw ELSE default
SafeTsCol(raw) == IF raw = "" THEN "" ELSE SafeIdent(raw, "timestamp")
SafeSortCol(raw, ts) == IF raw \in {NULL, ""} THEN ts ELSE SafeIdent(raw, ts)

\* apply_time_field_override, and LangfuseConnectionAdapter.supports_time_field.
TsCol ==
  IF engine = "langfuse" THEN "timestamp"
  ELSE SafeTsCol(IF request.field = NULL THEN Saved ELSE request.field)

SortCol ==
  IF engine # "langfuse" THEN SafeSortCol(request.sort, TsCol)
  ELSE IF request.sort = "timestamp" THEN request.sort ELSE "timestamp"

\* Trino is sent its timestamps with strftime, in whole seconds; ClickHouse is sent
\* all of them and reads them with parseDateTimeBestEffort, which has whole seconds.
SecondOf(t) == t - (t % SecondTicks)
Sent(t) == IF engine \in {"clickhouse", "trino"} THEN SecondOf(t) ELSE t

\* The rows of a WHERE clause. S3 has no query. The window is half open.
\*
\* Mutant: the upper bound is included.
MatchingClosed(q) ==
  {r \in Keys :
     /\ q.query /\ engine # "s3" => r \in table.hits
     /\ TsCol # "" /\ q.start # NULL => table.time[TsCol][r] >= Sent(q.start)
     /\ TsCol # "" /\ q.end # NULL => table.time[TsCol][r] <= Sent(q.end)}

Matching(q) ==
  {r \in Keys :
     /\ q.query /\ engine # "s3" => r \in table.hits
     /\ TsCol # "" /\ q.start # NULL => table.time[TsCol][r] >= Sent(q.start)
     /\ TsCol # "" /\ q.end # NULL => table.time[TsCol][r] < Sent(q.end)}

\* A statement on a column the table does not have is an error of the engine.
NoColumn(q, by) ==
  \/ by = "missing"
  \/ TsCol = "missing" /\ (q.start # NULL \/ q.end # NULL)

\* The orders an engine may return S in: ties, and all rows when there is no
\* ORDER BY, come as they come, and differently for each statement.
Ascending(S, by) ==
  {p \in SetToSeqs(S) : by = "" \/
     \A m, n \in DOMAIN p : m < n => table.time[by][p[m]] <= table.time[by][p[n]]}
Descending(S, by) == {Reverse(p) : p \in Ascending(S, by)}

\* Previews show the newest rows first.
\*
\* Mutant: the oldest.
NewestLast(S, by) == Ascending(S, by)

Newest(S, by) == Descending(S, by)

Slice(p, off, n) == SubSeq(p, off + 1, Min({off + n, Len(p)}))

\* A reply: its rows, and whether it is what the engine was asked for.
Reply(rows, ok) == [rows |-> rows, ok |-> ok]
Whole(pages) == {Reply(p, TRUE) : p \in pages}

\* The lines of a reply that parse, in their order.
Sorted(S) == CHOOSE p \in SetToSeqs(S) : \A m, n \in DOMAIN p : m < n => p[m] < p[n]
Parsed(rows) ==
  LET lines == Sorted({n \in DOMAIN rows : rows[n] \notin table.broken})
  IN [n \in DOMAIN lines |-> rows[lines[n]]]

\* Trino's nextUri loop ends with a statement, also with one that FAILED: the rows
\* that came so far are the result.
Statement(pages) ==
  Whole(pages) \cup
    (IF "query" \in Faults THEN UNION {{Reply(s, FALSE) : s \in Prefixes(p)} : p \in pages} ELSE {})
\* A statement on an unknown column has FAILED before it has rows.
Selected(q, by, pages) == IF NoColumn(q, by) THEN {Reply(<<>>, FALSE)} ELSE Statement(pages)

-----------------------------------------------------------------------------
(* The files of a bucket                                                   *)

OfFormat(f, keys) == {k \in keys : table.format[k] = f}
FirstPages(n) == {k \in Keys : k <= n * ListPage}
FirstOf(S, n) == {k \in S : Cardinality({s \in S : s <= k}) <= n}

\* The glob: all files of a format, under each reader.
Glob(order) == [i \in DOMAIN order |-> [format |-> order[i], files |-> OfFormat(order[i], Keys)]]

\* _ordered_readers: a format among the first keys is tried first. If the listing
\* raises, the order is as it is.
Preferred(n) == <<Readers[n]>> \o RemoveAt(Readers, n)
Peeked == {n \in DOMAIN Readers : OfFormat(Readers[n], {k \in Keys : k <= PeekKeys}) # {}}
OrderedReaders ==
  {Glob(IF Peeked = {} THEN Readers ELSE Preferred(Min(Peeked)))}
    \cup (IF "list" \in Faults THEN {Glob(Readers)} ELSE {})

\* _sample_bucket: pages of the listing until one format has enough keys. If a page
\* raises, the pages before it are the sample.
Enough(n) ==
  \/ n = MaxPages \/ FirstPages(n) = Keys
  \/ \E i \in DOMAIN Readers : Cardinality(OfFormat(Readers[i], FirstPages(n))) >= SampleKeys
PagesListed == CHOOSE n \in 1..MaxPages : Enough(n) /\ \A k \in 1..(n - 1) : ~Enough(k)
Sampled(n) ==
  [i \in DOMAIN Readers |->
     [format |-> Readers[i], files |-> FirstOf(OfFormat(Readers[i], FirstPages(n)), SampleKeys)]]

\* Mutant: nothing sampled is nothing to read.
SampledReadersOnly ==
  {Sampled(n) : n \in IF "list" \in Faults THEN 0..PagesListed ELSE {PagesListed}}

\* The readers of preview and fetch_page: the glob when nothing was sampled.
SampledReaders ==
  {IF \A i \in DOMAIN Readers : Sampled(n)[i].files = {} THEN Glob(Readers) ELSE Sampled(n) :
     n \in IF "list" \in Faults THEN 0..PagesListed ELSE {PagesListed}}

\* A scan returns the rows of the first reader that does not raise. Without files a
\* reader raises, so does a broken parquet file or a column that is not there; json
\* and csv leave broken rows out. When all raise, there are no rows.
Broken(r) == r.format = "parquet" /\ r.files \cap table.broken # {}
Scans(q, by, readers) ==
  LET used == {i \in DOMAIN readers : readers[i].files # {}}
      bad  == {i \in used : Broken(readers[i]) \/ NoColumn(q, by)}
      Scan(raised) ==
        LET left == used \ raised
            first == IF left = {} THEN Len(readers) + 1 ELSE Min(left)
        IN [rows |-> IF left = {} THEN {}
                     ELSE (Matching(q) \cap readers[first].files) \ table.broken,
            ok |-> \A i \in raised : i > first]
  IN {Scan(bad \cup more) : more \in IF "reader" \in Faults THEN SUBSET used ELSE {{}}}

-----------------------------------------------------------------------------
(* The calls of an adapter                                                 *)

ClickHousePreview(q, by, limit) ==
  {Reply(Parsed(Slice(p, 0, limit)), TRUE) : p \in Newest(Matching(q), by)}
TrinoPreview(q, by, limit) ==
  Selected(q, by, {Slice(p, 0, limit) : p \in Newest(Matching(q), by)})
LangfusePreview(q, by, limit) == Whole({Slice(p, 0, limit) : p \in Newest(Matching(q), by)})
S3Preview(q, by, limit) ==
  UNION {{Reply(Slice(p, 0, limit), s.ok) : p \in Newest(s.rows, by)} :
           s \in UNION {Scans(q, by, r) : r \in SampledReaders}}

Preview(q, by, limit) ==
  CASE engine = "clickhouse" -> ClickHousePreview(q, by, limit)
    [] engine = "trino" -> TrinoPreview(q, by, limit)
    [] engine = "langfuse" -> LangfusePreview(q, by, limit)
    [] engine = "s3" -> S3Preview(q, by, limit)

\* A count replies with a number in place of the rows. Trino's FAILED one is 0.
ClickHouseCount(q) == {Reply(Cardinality(Matching(q)), TRUE)}
TrinoCount(q) ==
  (IF NoColumn(q, "") THEN {} ELSE {Reply(Cardinality(Matching(q)), TRUE)})
    \cup (IF NoColumn(q, "") \/ "query" \in Faults THEN {Reply(0, FALSE)} ELSE {})
LangfuseCount(q) == {Reply(Cardinality(Matching(q)), TRUE)}
S3Count(q) ==
  {Reply(Cardinality(s.rows), s.ok) : s \in UNION {Scans(q, "", r) : r \in OrderedReaders}}

Counts(q) ==
  CASE engine = "clickhouse" -> ClickHouseCount(q)
    [] engine = "trino" -> TrinoCount(q)
    [] engine = "langfuse" -> LangfuseCount(q)
    [] engine = "s3" -> S3Count(q)

\* Langfuse has pages, the first of which is 1, and an order of its own; Trino is
\* sent no ORDER BY.
LangfuseOrder(S) == CHOOSE p \in Descending(S, "timestamp") : TRUE

ClickHousePage(q, off) ==
  {Reply(Parsed(Slice(p, off, BatchSize)), TRUE) : p \in Ascending(Matching(q), TsCol)}
TrinoPage(q, off) ==
  Selected(q, "", {Slice(p, off, BatchSize) : p \in Ascending(Matching(q), "")})
LangfusePage(q, off) ==
  LET page == (off \div BatchSize) + 1
  IN Whole({Slice(LangfuseOrder(Matching(q)), (page - 1) * BatchSize, BatchSize)})
S3Page(q, off) ==
  UNION {{Reply(Slice(p, off, BatchSize), s.ok) : p \in Ascending(s.rows, TsCol)} :
           s \in UNION {Scans(q, TsCol, r) : r \in SampledReaders}}

FetchPages(q, off) ==
  CASE engine = "clickhouse" -> ClickHousePage(q, off)
    [] engine = "trino" -> TrinoPage(q, off)
    [] engine = "langfuse" -> LangfusePage(q, off)
    [] engine = "s3" -> S3Page(q, off)

\* Does a call raise? ClickHouse answers 4xx to an unknown column; a Trino that
\* fails, and a reader that raises, do not make the call raise.
MustRaise(q, by) == engine = "clickhouse" /\ NoColumn(q, by)
MayRaise == "call" \in Faults

-----------------------------------------------------------------------------
(* The page                                                                *)

NoWindow == [query |-> FALSE, start |-> NULL, end |-> NULL]
Between(a, b) == [query |-> FALSE, start |-> a, end |-> b]
Cut(a, b, i) == a + ((b - a) * i) \div Windows

\* One row of each part of the window; parts whose preview raises are left out.
PartsOf(a, b) ==
  LET Part(i) == Between(Cut(a, b, i), Cut(a, b, i + 1))
      Seen(i) == (IF MustRaise(Part(i), TsCol) THEN {} ELSE Preview(Part(i), TsCol, 1))
                   \cup (IF MayRaise \/ MustRaise(Part(i), TsCol) THEN {Reply(<<>>, FALSE)} ELSE {})
      parts == 0..(Windows - 1)
      results == {s \in [parts -> UNION {Seen(i) : i \in parts}] : \A i \in parts : s[i] \in Seen(i)}
  IN {UNION {ToSet(s[i].rows) : i \in parts} : s \in results}

\* The rows of a preview, and whether it is what the engine was asked for.
RowsShown(q) == {Reply(ToSet(p.rows), p.ok) : p \in Preview(q, TsCol, SchemaLimit)}

\* Mutant: no second look outside the window.
FallbackNone(seen) == {Reply(seen, TRUE)}

\* Nothing in the window, or nothing but failures: any rows of the source.
Fallback(seen) == IF seen # {} THEN {Reply(seen, TRUE)} ELSE RowsShown(NoWindow)

S3Schema == RowsShown(Between(request.start, request.end))

\* The parts of the last day when there is no start. A start without an end raises.
SchemaRows ==
  LET a == IF request.start = NULL THEN Now - Day ELSE request.start
      b == IF request.start = NULL THEN Now ELSE request.end
  IN IF engine = "s3" THEN S3Schema ELSE IF b = NULL THEN {}
     ELSE UNION {IF seen = {} /\ MustRaise(NoWindow, TsCol) THEN {} ELSE Fallback(seen) :
                   seen \in PartsOf(a, b)}

Note(call, ok) == swallowed' = IF ok THEN swallowed ELSE swallowed \cup {call}

Schema ==
  /\ pc = "browsing"
  /\ \/ \E s \in SchemaRows : fields' = s.rows /\ Note("schema", s.ok)
     \/ (MayRaise \/ SchemaRows = {}) /\ fields' = NULL /\ UNCHANGED swallowed
  /\ pc' = "listed"
  /\ UNCHANGED <<givenVars, shown, told, total, offset, got>>

Asked == [query |-> request.query, start |-> request.start, end |-> request.end]

\* preview_connection: the rows and the count at once; a count that raises is 0.
PreviewConnection ==
  /\ pc = "browsing"
  /\ ~MustRaise(Asked, SortCol)
  /\ \E p \in Preview(Asked, SortCol, PreviewLimit) :
       /\ shown' = p.rows
       /\ \/ \E c \in Counts(Asked) : told' = c.rows /\ Note("preview", p.ok /\ c.ok)
          \/ MayRaise /\ told' = 0 /\ Note("preview", FALSE)
  /\ pc' = "counting"
  /\ UNCHANGED <<givenVars, fields, total, offset, got>>

\* 502; the user may export all the same.
\*
PreviewRaises ==
  /\ pc = "browsing"
  /\ MayRaise \/ MustRaise(Asked, SortCol)
  /\ shown' = NULL
  /\ pc' = "counting"
  /\ UNCHANGED <<givenVars, fields, told, total, offset, got, swallowed>>

-----------------------------------------------------------------------------
(* The export                                                              *)

Loop(off, n) == IF off < n THEN "fetching" ELSE "done"

CountTotal ==
  /\ pc = "counting"
  /\ ~MustRaise(Asked, "")
  /\ \E c \in Counts(Asked) : total' = c.rows /\ Note("export", c.ok)
  /\ pc' = Loop(0, total')
  /\ UNCHANGED <<givenVars, fields, shown, told, offset, got>>

FetchPage ==
  /\ pc = "fetching"
  /\ ~MustRaise(Asked, TsCol)
  /\ \E p \in FetchPages(Asked, offset) : got' = got \o p.rows /\ Note("export", p.ok)
  /\ offset' = offset + BatchSize
  /\ pc' = Loop(offset', total)
  /\ UNCHANGED <<givenVars, fields, shown, told, total>>

\* The job fails.
CallRaises ==
  /\ \/ pc = "counting" /\ (MayRaise \/ MustRaise(Asked, ""))
     \/ pc = "fetching" /\ (MayRaise \/ MustRaise(Asked, TsCol))
  /\ pc' = "failed"
  /\ UNCHANGED <<givenVars, fields, shown, told, total, offset, got, swallowed>>

Next == Schema \/ PreviewConnection \/ PreviewRaises \/ CountTotal \/ FetchPage \/ CallRaises

Spec == Init /\ [][Next]_vars

-----------------------------------------------------------------------------
(* Safety                                                                  *)

\* What the user asked for, whatever the statements are: the rows that pass the
\* query, where the engine has one, and lie in the half-open window, and can be read.
\* The window of a ClickHouse source begins and ends with a whole second: rows before
\* the start are exported, and rows before the end are not, if they share its second.
Column ==
  LET name == IF request.field = NULL THEN Saved ELSE request.field
  IN IF engine = "langfuse" \/ name = "not an identifier" THEN "timestamp" ELSE name
Bound(t) == IF engine = "clickhouse" THEN SecondOf(t) ELSE t
InWindow(r) ==
  Column = "" \/ \A t \in {table.time[Column][r]} :
    /\ request.start # NULL => Bound(request.start) <= t
    /\ request.end # NULL => t < Bound(request.end)
Readable == IF engine \in {"clickhouse", "s3"} THEN Keys \ table.broken ELSE Keys
Wanted == {r \in Readable : InWindow(r) /\ (request.query /\ engine # "s3" => r \in table.hits)}

\* Is the order of the pages the same in each statement? Trino has none.
Tied(col) == \E r, s \in Keys : r # s /\ table.time[col][r] = table.time[col][s]
Ordered == engine = "langfuse" \/ (engine # "trino" /\ TsCol # "" /\ ~Tied(TsCol))
\* Do the listings see all of the bucket, and is it of one format?
SmallBucket ==
  engine = "s3" => Len(table.format) <= PeekKeys /\ PeekKeys <= SampleKeys /\ PeekKeys <= ListPage
OneFormat ==
  engine = "s3" =>
    Cardinality(ToSet(table.format)) <= 1 /\ ToSet(table.format) \subseteq ToSet(Readers)
Exported == pc = "done" /\ "export" \notin swallowed

\* A completed export of a source at rest has each row the user asked for once, with
\* any column for the time (for ClickHouse, in a window cut to seconds), as long as
\* the pages have an order that stays, and a bucket is small and of one format: over
\* failing listings, ClickHouse lines that do not parse and pages of any size
\* (count and fetch_page of the adapters, and the loop of run_export_job).
ExportIsWhole ==
  Exported /\ Ordered /\ SmallBucket /\ OneFormat =>
    IsInjective(got) /\ ToSet(got) = Wanted

\* Ties and Trino, whose pages have no order, may repeat a row and leave out another,
\* but never change the number: the job reads as many records as it counted, broken
\* lines aside.
AsManyAsCounted ==
  Exported /\ SmallBucket /\ (engine = "clickhouse" => table.broken = {}) => Len(got) = total

\* The preview is of the export: its rows are the newest of those the job will read,
\* and its total is their number, for the same column, window and query, unless
\* the preview swallowed an error.
PreviewIsExported ==
  Exported /\ shown # NULL /\ "preview" \notin swallowed /\ Ordered /\ SmallBucket =>
    /\ told = total
    /\ ToSet(shown) \subseteq ToSet(got)
    /\ Readable = Keys => Len(shown) = Min({PreviewLimit, total})
    /\ Readable = Keys /\ SortCol # "" =>
         \A r \in ToSet(shown), s \in ToSet(got) \ ToSet(shown) :
           table.time[SortCol][s] <= table.time[SortCol][r]

\* The schema of a source that has rows is not empty, wherever they lie in time and
\* whichever parts of the window fail, raising or in silence, as long as the one query
\* without a window does not fail in silence as well. (If it raises, so does schema.)
SchemaSeesFields ==
  fields = {} /\ engine # "s3" /\ Readable = Keys /\ Keys # {} => "schema" \in swallowed

-----------------------------------------------------------------------------
(* What the documentation says and the code does not do                    *)

\* "failed: unrecoverable error (sink unreachable, disk full, adapter error)": an
\* export in which the source reported an error does not complete.
AdapterErrorFails == pc = "done" => "export" \notin swallowed
=============================================================================
