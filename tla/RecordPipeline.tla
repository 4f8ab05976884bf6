--------------------------- MODULE RecordPipeline ---------------------------
(***************************************************************************)
(* What run_export_job does to each record between fetch_page and the      *)
(* sink: sampling, field extraction, masking, asset resolution, post_file. *)
(* ExportRun has the loop around it, where each record only has a fate.    *)
(*                                                                         *)
(* The sink is one that writes lines of JSON (local-jsonl, s3-jsonl); what *)
(* it does with a record before json.dumps is the same in every sink. A    *)
(* job without sampling is one that samples at the ratio 1.                *)
(***************************************************************************)
EXTENDS Sampling, FieldPaths

CONSTANTS
  NULL,      \* no field extraction
  Jobs,      \* what is exported and how: see JobsAssumption
  Falsy,     \* leaves that are false in Python: null, zero, the empty string
  NonText,   \* leaves that are not strings: numbers, null
  Hex,       \* leaves that are strings of hexadecimal digits
  FileNames, \* last segments of the asset URLs
  NameOf     \* the URLs that may be fetched, with their last segments

\* The group of a record: str(record.get(target_column, "_unknown")).
KeyOf(record) ==
  IF "group" \in DOMAIN record.obj THEN record.obj["group"].leaf ELSE "_unknown"

ASSUME NamesAssumption == NameOf \in [DOMAIN NameOf -> FileNames]
\* The records of the source, the sampling, the path of the extraction, the rules of the
\* masking, and the fields with URLs of assets, none of them twice.
ASSUME JobsAssumption ==
  \A j \in Jobs :
    /\ j.records \in Seq(ToSet(j.records)) /\ \A n \in DOMAIN j.records : KeyOf(j.records[n]) \in Keys
    /\ j.sampling \in Samplings
    /\ j.urls \in Seq(ToSet(j.urls)) /\ IsInjective(j.urls)

VARIABLES
  job,        \* the job: records of the source, and its settings
  processed, skipped, assetErrors,  \* counters of run_export_job
  raised,     \* an exception has left the loop
  posted,     \* what the sink wrote, with the record it was made of
  assets      \* the asset dataset: the URL whose content a file has

countVars == <<processed, skipped, assetErrors>>
sinkVars  == <<posted, assets>>
vars      == <<samplingVars, job, countVars, raised, sinkVars>>

\* Every variable has its type, and each record read was counted once.
TypeOK ==
  /\ SamplingType
  /\ job \in Jobs /\ job.sampling = sampling /\ seen <= Len(job.records)
  /\ {processed, skipped, assetErrors} \subseteq Nat
  /\ assetErrors <= skipped
  /\ raised \in BOOLEAN
  /\ \A i \in DOMAIN posted : posted[i].from \in ToSet(job.records)
  /\ assets \in [FileNames -> DOMAIN NameOf \cup {NULL}]
  /\ raised => processed + skipped + 1 = seen
  /\ ~raised => processed + skipped = seen

Init ==
  /\ job \in Jobs
  /\ sampling = job.sampling /\ SamplingInit
  /\ processed = 0 /\ skipped = 0 /\ assetErrors = 0
  /\ raised = FALSE
  /\ posted = <<>>
  /\ assets = [f \in FileNames |-> NULL]

-----------------------------------------------------------------------------
\* The record after field extraction, when the job asks for it.
Content(record) == IF job.path = NULL THEN record ELSE Extract(record, job.path)

\* Mutant: the rules are applied to the envelope, before extraction.
MaskedFirst(record) ==
  LET masked == ApplyMasking(record, job.rules)
  IN  IF job.path = NULL THEN masked ELSE Extract(masked, job.path)

Masked(record) == ApplyMasking(Content(record), job.rules)

\* The fields resolve_assets will fetch: those of the record with a true value.
UrlFields(v) ==
  {i \in DOMAIN job.urls :
     /\ job.urls[i] \in DOMAIN v.obj
     /\ v.obj[job.urls[i]] \notin {[leaf |-> x] : x \in Falsy}}
UrlAt(v, i) == v.obj[job.urls[i]]
Fetchable(v, i) == Is("leaf", UrlAt(v, i)) /\ UrlAt(v, i).leaf \in DOMAIN NameOf

Resolves == job.urls # <<>>

\* The assets stored when the fields in done were fetched, in their order: of those with
\* one name the last stays.
Stored(v, done) ==
  LET Of(file) == {i \in done : NameOf[UrlAt(v, i).leaf] = file}
      LastOf(file) == CHOOSE i \in Of(file) : \A k \in Of(file) : k <= i
  IN  [file \in FileNames |-> IF Of(file) = {} THEN assets[file] ELSE UrlAt(v, LastOf(file)).leaf]

\* The record with references to the stored files in place of the URLs.
Referring(v) ==
  LET fields == {job.urls[i] : i \in UrlFields(v)}
  IN  [obj |-> [k \in DOMAIN v.obj |->
                  IF k \in fields THEN [leaf |-> NameOf[v.obj[k].leaf]] ELSE v.obj[k]]]

Skip == skipped' = skipped + 1 /\ UNCHANGED <<processed, raised, posted>>

\* A field cannot be fetched, or its file not stored: those before it are stored
\* and stay. A list is no record: dict(record) raises (unless its elements are pairs).
\*
\* Mutant: the error is logged and the record is posted as it is.
AssetFailsSoftly(record, v) ==
  /\ Resolves /\ Is("obj", v) /\ UrlFields(v) # {}
  /\ assetErrors' = assetErrors + 1
  /\ processed' = processed + 1
  /\ posted' = Append(posted, [from |-> record, value |-> v])
  /\ UNCHANGED <<skipped, raised, assets>>

AssetFails(record, v) ==
  /\ Resolves
  /\ \/ Is("list", v) /\ UNCHANGED assets
     \/ /\ Is("obj", v)
        /\ \E i \in UrlFields(v) :
             LET before == {k \in UrlFields(v) : k < i}
             IN  /\ \A k \in before : Fetchable(v, k)
                 /\ assets' = Stored(v, before)
  /\ assetErrors' = assetErrors + 1
  /\ Skip

\* sink.post_file. record.get on a list raises, and so does a "data" field that is
\* a string but not hexadecimal; one that is goes to a file of its own. A field the
\* masking has hashed is hexadecimal, whatever it was, and one it has hidden is not.
Data(v) == v.obj["data"]
HasData(v) ==
  /\ Is("obj", v) /\ "data" \in DOMAIN v.obj
  /\ ~IsContainer(Data(v))
  /\ Is("leaf", Data(v)) => Data(v).leaf \notin NonText
PostRaises(v) ==
  \/ Is("list", v)
  \/ HasData(v) /\ (Is("leaf", Data(v)) => Data(v).leaf \notin Hex \cup {MarkOf("hash").leaf})

Post(record, v) ==
  \/ /\ PostRaises(v)
     /\ raised' = TRUE
     /\ UNCHANGED <<processed, posted>>
  \/ /\ ~PostRaises(v)
     /\ processed' = processed + 1
     /\ posted' = IF HasData(v) THEN posted
                  ELSE Append(posted, [from |-> record, value |-> v])
     /\ UNCHANGED raised

Deliver(record, v) ==
  \/ /\ ~Resolves
     /\ Post(record, v)
     /\ UNCHANGED <<skipped, assetErrors, assets>>
  \/ AssetFails(record, v)
  \/ /\ Resolves /\ Is("obj", v)
     /\ \A i \in UrlFields(v) : Fetchable(v, i)
     /\ assets' = Stored(v, UrlFields(v))
     /\ Post(record, Referring(v))
     /\ UNCHANGED <<skipped, assetErrors>>

\* The body of the loop over the records of a page.
ProcessRecord ==
  /\ ~raised
  /\ seen < Len(job.records)
  /\ UNCHANGED job
  /\ LET record == job.records[seen + 1]
     IN  \/ /\ Feed(KeyOf(record), FALSE)
            /\ Skip /\ UNCHANGED <<assetErrors, assets>>
         \/ /\ Feed(KeyOf(record), TRUE)
            /\ Content(record) = NoValue
            /\ Skip /\ UNCHANGED <<assetErrors, assets>>
         \/ /\ Feed(KeyOf(record), TRUE)
            /\ Content(record) # NoValue
            /\ Deliver(record, Masked(record))

Spec == Init /\ [][ProcessRecord]_vars

-----------------------------------------------------------------------------
\* An exported record refers to files of the asset dataset, never to what was not
\* stored, and the file a field refers to has the content of its own URL, however
\* many records and failures follow. (Two URLs that end in the same segment share
\* a file: see the README.)
Clash == \E u, w \in DOMAIN NameOf : u # w /\ NameOf[u] = NameOf[w]
AssetsResolved ==
  Resolves /\ ~Clash =>
    \A i \in DOMAIN posted :
      LET before == Masked(posted[i].from)
          after == posted[i].value
      IN  \A k \in UrlFields(before) :
            LET file == UrlAt(after, k).leaf
            IN  file \in FileNames /\ assets[file] = UrlAt(before, k).leaf
=============================================================================
