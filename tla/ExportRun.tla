------------------------------ MODULE ExportRun ------------------------------
(***************************************************************************)
(* One export job from its first delivery to its end, at the grain of the  *)
(* records: run_export_job counts the source, reads it page by page, drops *)
(* or converts each record, posts it to the sink, and writes its counters  *)
(* to the row after each page. Meanwhile the source changes, the user      *)
(* cancels, calls fail, and the worker may die and have the job delivered  *)
(* again. ExportJobs has what this leaves out: other jobs, the sweep and   *)
(* the handlers.                                                           *)
(*                                                                         *)
(* A record is a natural number, its place in the order of the query. What *)
(* sampling, extraction and assets decide of a record is a choice among    *)
(* Fates. A definition introduced by "Mutant" is the next one with a       *)
(* plausible bug, substituted for it to show that a property would notice. *)
(***************************************************************************)
EXTENDS Naturals, FiniteSets, Sequences, SequencesExt

CONSTANTS
  NULL,       \* SQL NULL
  Records,    \* the records the source may hold
  BatchSize,  \* settings.export.batch_size
  Limits,     \* values of sampling_config.max_items, 0 when there is none
  Kinds,      \* the kinds of sink the job may have
  Fates,      \* what may become of a record
  Changes,    \* how the source may change
  Faults,     \* the faults that may happen
  MaxTries    \* arq's max_tries

\* A "stream" sink writes each record to a file it truncated (local-jsonl), a
\* "buffer" sink puts the whole at the end (local-zip, s3-*), a "remote" one
\* uploads each record to a dataset that exists already (tagme-dataset, the mocks).
AllKinds == {"stream", "buffer", "remote"}
AllFates == {"kept", "skipped", "unwritable"}
AllChanges == {"append", "late", "delete"}
AllFaults == {"call", "crash"}

ASSUME RecordsAssumption == Records \subseteq Nat /\ IsFiniteSet(Records) /\ NULL \notin Nat
ASSUME SizesAssumption ==
  /\ BatchSize \in Nat \ {0}
  /\ Limits \subseteq Nat
  /\ MaxTries \in Nat \ {0}
ASSUME KindsAssumption ==
  /\ Kinds \subseteq AllKinds
  /\ Fates \subseteq AllFates
  /\ Changes \subseteq AllChanges
  /\ Faults \subseteq AllFaults

VARIABLES
  source,   \* the records the query matches now
  moved,    \* what has happened to them since the run counted them: see Moves
  kind, limit,  \* the kind of the job's sink, and its max_items
  status,   \* export_jobs.status
  rtotal, rprocessed, rskipped,  \* its counter columns
  pc, tries,
  total, offset, page, full,    \* locals of the loop; full is _limit_reached
  processed, skipped,           \* and its counters
  buf,      \* what the sink holds in memory
  lost,     \* sink.records_skipped
  dest      \* the records at the destination

sourceVars  == <<source, moved>>
jobVars     == <<kind, limit>>
counterCols == <<rprocessed, rskipped>>
rowVars     == <<status, rtotal, counterCols>>
loopVars    == <<total, offset, page, full>>
countVars   == <<processed, skipped>>
sinkVars    == <<buf, lost, dest>>
vars        == <<sourceVars, jobVars, rowVars, pc, tries, loopVars, countVars, sinkVars>>

\* The source is as it was, has grown at its end only, or rows have shifted.
Moves == {"still", "grown", "shifted"}

Busy == {"loaded", "counting", "creating", "fetching", "posting", "reporting",
         "checking", "finalising", "deciding", "closing", "failing", "returned"}

\* Every variable has its type.
TypeOK ==
  /\ source \subseteq Records
  /\ moved \in Moves
  /\ kind \in AllKinds /\ limit \in Nat
  /\ status \in {"pending", "running", "completed", "failed", "cancelled"}
  /\ rtotal \in Nat \cup {NULL}
  /\ {rprocessed, rskipped} \subseteq Nat
  /\ pc \in Busy \cup {"queued", "ended"}
  /\ tries \in 0..MaxTries
  /\ {total, offset, processed, skipped, lost} \subseteq Nat
  /\ full \in BOOLEAN
  /\ {page, buf, dest} \subseteq Seq(Records)

Init ==
  /\ source \in SUBSET Records
  /\ moved = "still"
  /\ kind \in Kinds /\ limit \in Limits
  /\ status = "pending"
  /\ rtotal = NULL /\ rprocessed = 0 /\ rskipped = 0
  /\ pc = "queued" /\ tries = 0
  /\ total = 0 /\ offset = 0 /\ page = <<>> /\ full = FALSE
  /\ processed = 0 /\ skipped = 0
  /\ buf = <<>> /\ lost = 0 /\ dest = <<>>

-----------------------------------------------------------------------------
(* The source                                                              *)

InOrder(s) == \A m, n \in DOMAIN s : m < n => s[m] < s[n]
Sorted(S) == CHOOSE s \in [1..Cardinality(S) -> S] : InOrder(s)

\* fetch_page: at most batch_size rows of the ordered query, from the offset on.
Page(off) == SubSeq(Sorted(source), off + 1, Min({off + BatchSize, Cardinality(source)}))

\* A record is stored: after all the others, or before one of them.
SourceGains(r) ==
  /\ r \notin source
  /\ IF \A s \in source : s < r
     THEN "append" \in Changes /\ moved' = IF moved = "still" THEN "grown" ELSE moved
     ELSE "late" \in Changes /\ moved' = "shifted"
  /\ source' = source \cup {r}
  /\ UNCHANGED <<jobVars, rowVars, pc, tries, loopVars, countVars, sinkVars>>

\* A record is deleted, or updated so that the query no longer matches it.
SourceLoses(r) ==
  /\ "delete" \in Changes
  /\ r \in source
  /\ source' = source \ {r}
  /\ moved' = "shifted"
  /\ UNCHANGED <<jobVars, rowVars, pc, tries, loopVars, countVars, sinkVars>>

-----------------------------------------------------------------------------
(* The run                                                                 *)

Goto(p) == pc' = p

\* arq delivers the job. A cancelled row returns.
Deliver ==
  /\ pc = "queued"
  /\ tries < MaxTries
  /\ tries' = tries + 1
  /\ Goto(IF status = "cancelled" THEN "returned" ELSE "loaded")
  /\ UNCHANGED <<sourceVars, jobVars, rowVars, loopVars, countVars, sinkVars>>

MarkRunning ==
  /\ pc = "loaded"
  /\ status' = "running"
  /\ Goto("counting")
  /\ UNCHANGED <<sourceVars, jobVars, rtotal, counterCols, tries, loopVars, countVars, sinkVars>>

Count ==
  /\ pc = "counting"
  /\ total' = Cardinality(source)
  /\ rtotal' = total'
  /\ moved' = "still"
  /\ Goto("creating")
  /\ UNCHANGED <<source, jobVars, status, counterCols, tries, offset, page, full, countVars, sinkVars>>

\* The head of the loop over range(0, total, batch_size).
\*
\* Mutant: the loop goes on as long as the source has a page.
LoopToEnd(off, stop) == IF off < Cardinality(source) /\ ~stop THEN "fetching" ELSE "finalising"

Loop(off, stop) == IF off < total /\ ~stop THEN "fetching" ELSE "finalising"

\* get_sink makes a new sink; a streaming one truncates its file.
CreateDataset ==
  /\ pc = "creating"
  /\ buf' = <<>> /\ lost' = 0
  /\ dest' = IF kind = "stream" THEN <<>> ELSE dest
  /\ Goto(Loop(0, FALSE))
  /\ UNCHANGED <<sourceVars, jobVars, rowVars, tries, loopVars, countVars>>

\* Mutant: an empty page is asked for again.
FetchPageAgain ==
  /\ pc = "fetching"
  /\ page' = Page(offset)
  /\ Goto(IF page' = <<>> THEN "fetching" ELSE "posting")
  /\ UNCHANGED <<sourceVars, jobVars, rowVars, tries, total, offset, full, countVars, sinkVars>>

FetchPage ==
  /\ pc = "fetching"
  /\ page' = Page(offset)
  /\ Goto(IF page' = <<>> THEN "reporting" ELSE "posting")
  /\ UNCHANGED <<sourceVars, jobVars, rowVars, tries, total, offset, full, countVars, sinkVars>>

\* sink.post_file: a JSONL sink does not write a record json.dumps refuses.
Post(r) ==
  /\ IF kind = "buffer"
     THEN buf' = Append(buf, r) /\ UNCHANGED dest
     ELSE dest' = Append(dest, r) /\ UNCHANGED buf
  /\ UNCHANGED lost

PostUnwritable ==
  /\ kind # "remote"
  /\ lost' = lost + 1
  /\ UNCHANGED <<buf, dest>>

\* Mutant: the limit lets one more record through.
LimitHitLate == limit # 0 /\ processed' > limit

LimitHit == limit # 0 /\ processed' >= limit

\* What follows post_file: count the record, and leave both loops at the limit.
Advance ==
  IF LimitHit
  THEN page' = <<>> /\ full' = TRUE
  ELSE page' = Tail(page) /\ UNCHANGED full

\* Sampling drops the record, extraction does not find its field, or an asset is
\* not resolved (which also adds to asset_errors, a counter of no other use).
Skip ==
  /\ "skipped" \in Fates
  /\ skipped' = skipped + 1
  /\ page' = Tail(page)
  /\ UNCHANGED <<processed, full, sinkVars>>

Keep ==
  /\ processed' = processed + 1
  /\ \/ "kept" \in Fates /\ Post(Head(page))
     \/ "unwritable" \in Fates /\ PostUnwritable
  /\ Advance
  /\ UNCHANGED skipped

ProcessRecord ==
  /\ pc = "posting"
  /\ Skip \/ Keep
  /\ Goto(IF page' = <<>> THEN "reporting" ELSE "posting")
  /\ UNCHANGED <<sourceVars, jobVars, rowVars, tries, total, offset>>

UpdateProgress ==
  /\ pc = "reporting"
  /\ rprocessed' = processed
  /\ rskipped' = skipped
  /\ Goto("checking")
  /\ UNCHANGED <<sourceVars, jobVars, status, rtotal, tries, loopVars, countVars, sinkVars>>

\* is_job_cancelled, then the next page. The keep-alive check that follows resets
\* the timer of the throughput metric and writes nothing.
CheckCancelled ==
  /\ pc = "checking"
  /\ full' = (full \/ status = "cancelled")
  /\ offset' = offset + BatchSize
  /\ Goto(Loop(offset', full'))
  /\ UNCHANGED <<sourceVars, jobVars, rowVars, tries, total, page, countVars, sinkVars>>

\* The sink's own count joins the local one, after the last progress update.
Finalise ==
  /\ pc = "finalising"
  /\ skipped' = skipped + lost
  /\ dest' = IF kind = "buffer" THEN buf ELSE dest
  /\ buf' = <<>>
  /\ Goto("deciding")
  /\ UNCHANGED <<sourceVars, jobVars, rowVars, tries, loopVars, processed, lost>>

Decide ==
  /\ pc = "deciding"
  /\ Goto(IF status = "cancelled" THEN "returned" ELSE "closing")
  /\ UNCHANGED <<sourceVars, jobVars, rowVars, tries, loopVars, countVars, sinkVars>>

Complete ==
  /\ pc = "closing"
  /\ status' = "completed"
  /\ Goto("returned")
  /\ UNCHANGED <<sourceVars, jobVars, rtotal, counterCols, tries, loopVars, countVars, sinkVars>>

\* A call to the source, the sink or the database raises. A streaming or remote
\* sink may have written the record it was given; a put may have been applied.
CallRaises ==
  /\ "call" \in Faults
  /\ pc \in Busy \ {"failing", "returned"}
  /\ dest' \in {dest}
       \cup (IF pc = "posting" /\ kind # "buffer" THEN {Append(dest, Head(page))} ELSE {})
       \cup (IF pc = "finalising" /\ kind = "buffer" THEN {buf} ELSE {})
  /\ Goto("failing")
  /\ UNCHANGED <<sourceVars, jobVars, rowVars, tries, loopVars, countVars, buf, lost>>

Fail ==
  /\ pc = "failing"
  /\ status' = "failed"
  /\ Goto("returned")
  /\ UNCHANGED <<sourceVars, jobVars, rtotal, counterCols, tries, loopVars, countVars, sinkVars>>

\* The coroutine is gone, and its locals with it.
Forget ==
  /\ total' = 0 /\ offset' = 0 /\ page' = <<>> /\ full' = FALSE
  /\ processed' = 0 /\ skipped' = 0

Release ==
  /\ pc = "returned"
  /\ Goto("ended")
  /\ Forget
  /\ UNCHANGED <<sourceVars, jobVars, rowVars, tries, sinkVars>>

\* The worker dies; arq delivers the job again while tries are left.
Crash ==
  /\ "crash" \in Faults
  /\ pc \in Busy
  /\ Goto(IF tries < MaxTries THEN "queued" ELSE "ended")
  /\ Forget
  /\ UNCHANGED <<sourceVars, jobVars, rowVars, tries, sinkVars>>

Cancel ==
  /\ status \in {"pending", "running"}
  /\ status' = "cancelled"
  /\ UNCHANGED <<sourceVars, jobVars, rtotal, counterCols, pc, tries, loopVars, countVars, sinkVars>>

-----------------------------------------------------------------------------
Step ==
  \/ Deliver \/ MarkRunning \/ Count \/ CreateDataset
  \/ FetchPage \/ ProcessRecord \/ UpdateProgress \/ CheckCancelled
  \/ Finalise \/ Decide \/ Complete \/ Fail \/ Release

Next ==
  \/ Step
  \/ CallRaises
  \/ Crash
  \/ Cancel
  \/ \E r \in Records : SourceGains(r) \/ SourceLoses(r)

Spec == Init /\ [][Next]_vars

\* A worker that stays up resumes its coroutine; nothing makes the source change,
\* the user cancel, or a call fail.
FairSpec == Spec /\ WF_vars(Step)

-----------------------------------------------------------------------------
(* Safety                                                                  *)

\* Is the output replaced by each delivery? A remote sink adds to what is there.
\* And has it counted any record? A delivery that has not leaves the row with the
\* counters of the one before.
Replaced == kind # "remote" \/ tries = 1
Reported == status = "completed" /\ Replaced /\ rtotal # 0

\* The whole export: over cancels, failing calls, crashes and deliveries again, the
\* output of a completed job has records of the source only, in order and once. And
\* without max_items each record is either there or counted as skipped by the row or
\* by the sink: every one of a source at rest; of one that grows at its end, those
\* counted at the start and at most the rest of the last page.
Accounted == Len(dest) + lost + rskipped
WholeExport ==
  Reported /\ moved \in {"still", "grown"} =>
    /\ InOrder(dest) /\ ToSet(dest) \subseteq source
    /\ limit = 0 =>
         IF moved = "still" THEN Accounted = Cardinality(source)
         ELSE Accounted \in rtotal .. (rtotal + BatchSize - 1)

\* No delivery processes more than max_items records, and no output that is
\* replaced at each delivery has more.
MaxItemsHonoured ==
  limit # 0 =>
    /\ processed <= limit /\ rprocessed <= limit
    /\ kind # "remote" => Len(dest) <= limit

-----------------------------------------------------------------------------
(* Liveness                                                                *)

\* A run ends, even of a source that grows while it is read: the range of the loop
\* is fixed by the count.
RunEnds == pc = "counting" ~> pc \in {"queued", "ended"}

=============================================================================
