----------------------------- MODULE ExportJobs -----------------------------
(***************************************************************************)
(* The export_jobs table and everything that writes it: the API handlers   *)
(* (create, retry, cancel), the arq worker that runs run_export_job, the   *)
(* sweep loop of the worker process, and the passing of time.              *)
(*                                                                         *)
(* One step is what happens between two awaits that touch shared state.    *)
(* A timestamp is modelled by its age in ticks, saturated at AgeCap, one   *)
(* more than the largest timeout: no query of the code can tell apart two  *)
(* ages beyond it.                                                         *)
(*                                                                         *)
(* A definition introduced by "Mutant" is not part of the model: it is the *)
(* next definition with a plausible bug, substituted for it to show that a *)
(* property would notice.                                                  *)
(***************************************************************************)
EXTENDS Integers, FiniteSets

CONSTANTS
  Jobs,           \* ids the inserts may return
  Clients,        \* API requests in flight; a client runs one at a time
  Slots,          \* jobs the worker process runs concurrently (arq max_jobs)
  NULL,           \* SQL NULL, and "no job" in a handler or a slot
  OrgOf, RoleOf,  \* AuthContext.org_id and AuthContext.role of a client
  MaxActive,      \* settings.export.max_concurrent_jobs_per_org
  SweepTimeout,   \* settings.export.stale_job_timeout_minutes, in ticks
  ActiveTimeout,  \* _STALE_JOB_TIMEOUT_MINUTES, in ticks
  TTL,            \* settings.export.job_ttl_days, in ticks
  MaxTries,       \* arq's max_tries
  MaxBatches,     \* bound on the number of batches of one run
  Streaming,      \* does create_dataset of the sink already truncate the output
  Faults          \* the faults that may happen

Roles == {"super_admin", "org_admin", "user"}
FaultKinds == {"enqueue", "datasink", "sink", "db", "timeout", "crash"}
Horizon == {SweepTimeout, ActiveTimeout, TTL}
AgeCap == 1 + CHOOSE m \in Horizon : \A t \in Horizon : t <= m

ASSUME IdsAssumption == NULL \notin Jobs \cup Clients

\* Slots are max_jobs, ids are UUIDs, and a server holds finitely many requests.
ASSUME FiniteAssumption == IsFiniteSet(Slots) /\ IsFiniteSet(Jobs) /\ IsFiniteSet(Clients)

ASSUME AuthAssumption == RoleOf \in [Clients -> Roles]

ASSUME BoundsAssumption ==
  /\ MaxActive \in Nat \ {0}
  /\ SweepTimeout \in Nat
  /\ ActiveTimeout \in Nat
  /\ TTL \in Nat
  /\ MaxTries \in Nat \ {0}
  /\ MaxBatches \in Nat

ASSUME AgeAssumption == NULL \notin Nat

ASSUME FaultAssumption == Streaming \in BOOLEAN /\ Faults \subseteq FaultKinds

VARIABLES
  status,    \* export_jobs.status; "none" before the insert, "purged" after the delete
  owner,     \* export_jobs.user_id (and, through OrgOf, org_id)
  created,   \* age of created_at
  beat,      \* age of last_heartbeat_at
  done,      \* age of completed_at
  out,       \* what the destination holds for the job
  queue,     \* jobs arq still has to deliver, or has not finished
  tries,     \* deliveries of a job so far
  hpc, hjob,             \* a handler: where it is, and the row it inserted
  wpc, wjob, left, cut,  \* a slot: where it is, its job, batches left, loop broken by a cancel
  gauge      \* EXPORT_ACTIVE_JOBS of the worker process

stampVars == <<created, beat, done>>
rowVars   == <<status, stampVars, owner>>
arqVars   == <<queue, tries>>
apiVars   == <<hpc, hjob>>
slotVars  == <<wpc, wjob, left, cut>>
vars      == <<rowVars, out, arqVars, apiVars, slotVars, gauge>>

Active   == {"pending", "running"}
Terminal == {"completed", "failed", "cancelled"}
Status   == Active \cup Terminal \cup {"none", "purged"}
Output   == {"none", "partial", "whole"}
HandlerPc == {"idle", "retrying", "admitted", "inserted"}
InTry    == {"setup", "batching", "checking", "stopped", "deciding", "closing"}
SlotPc   == InTry \cup {"idle", "loaded", "failing", "returned"}
Age      == 0..AgeCap

\* Every variable has its type, and a handler or slot at work knows its job.
TypeOK ==
  /\ status \in [Jobs -> Status]
  /\ owner \in [Jobs -> Clients \cup {NULL}]
  /\ created \in [Jobs -> Age \cup {NULL}]
  /\ beat \in [Jobs -> Age \cup {NULL}]
  /\ done \in [Jobs -> Age \cup {NULL}]
  /\ out \in [Jobs -> Output]
  /\ queue \in SUBSET Jobs
  /\ tries \in [Jobs -> 0..MaxTries]
  /\ hpc \in [Clients -> HandlerPc]
  /\ hjob \in [Clients -> Jobs \cup {NULL}]
  /\ wpc \in [Slots -> SlotPc]
  /\ wjob \in [Slots -> Jobs \cup {NULL}]
  /\ left \in [Slots -> 0..MaxBatches]
  /\ cut \in [Slots -> BOOLEAN]
  /\ gauge \in Int
  /\ \A c \in Clients : hpc[c] = "inserted" => hjob[c] # NULL
  /\ \A w \in Slots : wpc[w] # "idle" => wjob[w] # NULL

Init ==
  /\ status = [j \in Jobs |-> "none"]
  /\ owner = [j \in Jobs |-> NULL]
  /\ created = [j \in Jobs |-> NULL]
  /\ beat = [j \in Jobs |-> NULL]
  /\ done = [j \in Jobs |-> NULL]
  /\ out = [j \in Jobs |-> "none"]
  /\ queue = {}
  /\ tries = [j \in Jobs |-> 0]
  /\ hpc = [c \in Clients |-> "idle"]
  /\ hjob = [c \in Clients |-> NULL]
  /\ wpc = [w \in Slots |-> "idle"]
  /\ wjob = [w \in Slots |-> NULL]
  /\ left = [w \in Slots |-> 0]
  /\ cut = [w \in Slots |-> FALSE]
  /\ gauge = 0

-----------------------------------------------------------------------------
(* Queries of export/db.py                                                 *)

Exists(j) == status[j] \notin {"none", "purged"}
Older(age, limit) == age # NULL /\ age > limit

\* The rows of an org: org_id is written once, by the insert, from the caller's.
RowsOf(org) == {j \in Jobs : Exists(j) /\ OrgOf[owner[j]] = org}

\* Who may act on a row: the role test of get_export_job and cancel_export_job.
CanSee(c, j) ==
  /\ Exists(j)
  /\ \/ RoleOf[c] = "super_admin"
     \/ RoleOf[c] = "org_admin" /\ OrgOf[owner[j]] = OrgOf[c]
     \/ owner[j] = c

\* The rows the two UPDATEs of count_active_jobs_for_org expire.
NoHeartbeat(j) == status[j] = "running" /\ (beat[j] = NULL \/ Older(beat[j], ActiveTimeout))
NeverStarted(j) == status[j] = "pending" /\ Older(created[j], ActiveTimeout)
Expired(org) == {j \in RowsOf(org) : NoHeartbeat(j) \/ NeverStarted(j)}

ActiveRows(org) == {j \in RowsOf(org) : status[j] \in Active}

\* count_active_jobs_for_org, one transaction under the advisory lock: expire,
\* then count what is left. completed_at is not touched.
CountActive(org) ==
  status' = [j \in Jobs |-> IF j \in Expired(org) THEN "failed" ELSE status[j]]

\* Mutant: the count forgets the pending rows.
CountedRunning(org) ==
  Cardinality({j \in ActiveRows(org) \ Expired(org) : status[j] = "running"})

Counted(org) == Cardinality(ActiveRows(org) \ Expired(org))

\* update_export_job_status: the WHERE clause is the id alone, so the row takes
\* the new status whatever its status is, and nothing happens if it was deleted.
\*
\* Mutant: the running update does not start the heartbeat.
SetRunningNoBeat(j) ==
  IF Exists(j)
  THEN /\ status' = [status EXCEPT ![j] = "running"]
       /\ UNCHANGED <<stampVars, owner>>
  ELSE UNCHANGED rowVars

SetRunning(j) ==
  IF Exists(j)
  THEN /\ status' = [status EXCEPT ![j] = "running"]
       /\ beat' = [beat EXCEPT ![j] = 0]
       /\ UNCHANGED <<created, done, owner>>
  ELSE UNCHANGED rowVars

\* Mutant: completed_at is not written.
SetFinishedUndated(j, s) ==
  IF Exists(j)
  THEN /\ status' = [status EXCEPT ![j] = s]
       /\ UNCHANGED <<stampVars, owner>>
  ELSE UNCHANGED rowVars

SetFinished(j, s) ==
  IF Exists(j)
  THEN /\ status' = [status EXCEPT ![j] = s]
       /\ done' = [done EXCEPT ![j] = 0]
       /\ UNCHANGED <<created, beat, owner>>
  ELSE UNCHANGED rowVars

\* update_export_progress: the heartbeat is written in any status.
Heartbeat(j) ==
  /\ beat' = IF Exists(j) THEN [beat EXCEPT ![j] = 0] ELSE beat
  /\ UNCHANGED <<status, created, done, owner>>

Cancelled(j) == status[j] = "cancelled"

-----------------------------------------------------------------------------
(* API handlers: routes/export_jobs.py                                     *)

\* The concurrency check of create and retry, up to the 429.
Admit(c) ==
  /\ CountActive(OrgOf[c])
  /\ hpc' = [hpc EXCEPT ![c] = IF Counted(OrgOf[c]) < MaxActive THEN "admitted" ELSE "idle"]
  /\ UNCHANGED <<stampVars, owner, out, arqVars, hjob, slotVars, gauge>>

CreateCheck(c) == hpc[c] = "idle" /\ Admit(c)

\* Retry reads the original first; only a failed one goes on.
RetryRead(c, j) ==
  /\ hpc[c] = "idle"
  /\ CanSee(c, j)
  /\ status[j] = "failed"
  /\ hpc' = [hpc EXCEPT ![c] = "retrying"]
  /\ UNCHANGED <<rowVars, out, arqVars, hjob, slotVars, gauge>>

RetryCheck(c) == hpc[c] = "retrying" /\ Admit(c)

\* No arq pool, or the ping fails: 503 before any row exists.
QueueUnreachable(c) ==
  /\ "enqueue" \in Faults
  /\ hpc[c] = "admitted"
  /\ hpc' = [hpc EXCEPT ![c] = "idle"]
  /\ UNCHANGED <<rowVars, out, arqVars, hjob, slotVars, gauge>>

\* insert_export_job. Create copies the request; retry builds an ExportJobCreate
\* from the row it read: which settings it takes over is not modelled.
Insert(c, j) ==
  /\ hpc[c] = "admitted"
  /\ status[j] = "none"
  /\ status' = [status EXCEPT ![j] = "pending"]
  /\ owner' = [owner EXCEPT ![j] = c]
  /\ created' = [created EXCEPT ![j] = 0]
  /\ hpc' = [hpc EXCEPT ![c] = "inserted"]
  /\ hjob' = [hjob EXCEPT ![c] = j]
  /\ UNCHANGED <<beat, done, out, arqVars, slotVars, gauge>>

EndRequest(c) ==
  /\ hpc' = [hpc EXCEPT ![c] = "idle"]
  /\ hjob' = [hjob EXCEPT ![c] = NULL]

\* enqueue_job succeeds: 201.
Enqueue(c) ==
  /\ hpc[c] = "inserted"
  /\ queue' = queue \cup {hjob[c]}
  /\ EndRequest(c)
  /\ UNCHANGED <<rowVars, out, tries, slotVars, gauge>>

\* enqueue_job raises: 503, and the row stays. Redis may or may not have taken
\* the job before the connection broke.
EnqueueFails(c) ==
  /\ "enqueue" \in Faults
  /\ hpc[c] = "inserted"
  /\ queue' \in {queue, queue \cup {hjob[c]}}
  /\ EndRequest(c)
  /\ UNCHANGED <<rowVars, out, tries, slotVars, gauge>>

\* The UPDATE repeats the status test of the SELECT before it, so it alone
\* decides; completed_at is not set.
Cancel(c, j) ==
  /\ CanSee(c, j)
  /\ status[j] \in Active
  /\ status' = [status EXCEPT ![j] = "cancelled"]
  /\ UNCHANGED <<stampVars, owner, out, arqVars, apiVars, slotVars, gauge>>

-----------------------------------------------------------------------------
(* arq and the worker: export/worker.py                                    *)

Goto(w, pc) == wpc' = [wpc EXCEPT ![w] = pc]
\* The coroutine is gone, and its locals with it.
Free(w) ==
  /\ Goto(w, "idle")
  /\ wjob' = [wjob EXCEPT ![w] = NULL]
  /\ left' = [left EXCEPT ![w] = 0]
  /\ cut' = [cut EXCEPT ![w] = FALSE]

Held(j) == \E w \in Slots : wpc[w] # "idle" /\ wjob[w] = j

\* run_export_job reads the row and returns at once if it is gone or cancelled.
\* Any other status, a failed or completed one included, is run.
\*
\* Mutant: the cancelled row is run as well.
SkippedIfGone(j) == ~Exists(j)

Skipped(j) == ~Exists(j) \/ Cancelled(j)

\* arq delivers a job it has not finished and that no slot is running. The read
\* of the row is outside the try: if it raises, arq is done with the job.
Pickup(w, j) ==
  /\ wpc[w] = "idle"
  /\ j \in queue
  /\ ~Held(j)
  /\ tries[j] < MaxTries
  /\ tries' = [tries EXCEPT ![j] = @ + 1]
  /\ wjob' = [wjob EXCEPT ![w] = j]
  /\ \/ Goto(w, IF Skipped(j) THEN "returned" ELSE "loaded")
     \/ "db" \in Faults /\ Goto(w, "returned")
  /\ UNCHANGED <<rowVars, out, queue, apiVars, left, cut, gauge>>

\* Mutant: the tries are compared before this delivery is counted.
GiveUpLate(j) ==
  /\ j \in queue
  /\ ~Held(j)
  /\ tries[j] > MaxTries
  /\ queue' = queue \ {j}
  /\ UNCHANGED <<rowVars, out, tries, apiVars, slotVars, gauge>>

\* arq drops a job whose tries are used up without calling the coroutine.
GiveUp(j) ==
  /\ j \in queue
  /\ ~Held(j)
  /\ tries[j] = MaxTries
  /\ queue' = queue \ {j}
  /\ UNCHANGED <<rowVars, out, tries, apiVars, slotVars, gauge>>

\* The worker's configuration has no such datasink: failed, by an UPDATE that is
\* outside the try and may raise.
NoDatasink(w) ==
  /\ "datasink" \in Faults
  /\ wpc[w] = "loaded"
  /\ \/ SetFinished(wjob[w], "failed")
     \/ "db" \in Faults /\ UNCHANGED rowVars
  /\ Goto(w, "returned")
  /\ UNCHANGED <<out, arqVars, apiVars, wjob, left, cut, gauge>>

MarkRunning(w) ==
  /\ wpc[w] = "loaded"
  /\ SetRunning(wjob[w])
  /\ gauge' = gauge + 1
  /\ Goto(w, "setup")
  /\ UNCHANGED <<out, arqVars, apiVars, wjob, left, cut>>

\* Adapter, count, sink, create_dataset: the number of batches is known, and a
\* streaming sink has truncated the output of an earlier run.
Setup(w, n) ==
  /\ wpc[w] = "setup"
  /\ left' = [left EXCEPT ![w] = n]
  /\ out' = IF Streaming THEN [out EXCEPT ![wjob[w]] = "partial"] ELSE out
  /\ Goto(w, "batching")
  /\ UNCHANGED <<rowVars, arqVars, apiVars, wjob, cut, gauge>>

\* One batch: fetch, post each record, then update_export_progress. The last
\* batch may also be the one that reaches max_items.
\*
\* Mutant: the range of the offsets has one batch too many.
BatchPastTotal(w) ==
  /\ wpc[w] = "batching"
  /\ left' = [left EXCEPT ![w] = @ - 1]
  /\ Heartbeat(wjob[w])
  /\ Goto(w, "checking")
  /\ UNCHANGED <<out, arqVars, apiVars, wjob, cut, gauge>>

Batch(w) ==
  /\ wpc[w] = "batching"
  /\ left[w] > 0
  /\ left' \in {[left EXCEPT ![w] = @ - 1], [left EXCEPT ![w] = 0]}
  /\ Heartbeat(wjob[w])
  /\ Goto(w, "checking")
  /\ UNCHANGED <<out, arqVars, apiVars, wjob, cut, gauge>>

CheckCancelled(w) ==
  /\ wpc[w] = "checking"
  /\ IF Cancelled(wjob[w])
     THEN Goto(w, "stopped") /\ cut' = [cut EXCEPT ![w] = TRUE]
     ELSE Goto(w, "batching") /\ UNCHANGED cut
  /\ UNCHANGED <<rowVars, out, arqVars, apiVars, wjob, left, gauge>>

\* Leaving the loop, by exhaustion or by the cancel, finalises the sink.
LoopLeft(w) == wpc[w] = "stopped" \/ (wpc[w] = "batching" /\ left[w] = 0)

Finalise(w) ==
  /\ LoopLeft(w)
  /\ out' = [out EXCEPT ![wjob[w]] = IF cut[w] THEN "partial" ELSE "whole"]
  /\ Goto(w, "deciding")
  /\ UNCHANGED <<rowVars, arqVars, apiVars, wjob, left, cut, gauge>>

\* Mutants: no cancel check after finalise; the cancelled run is not uncounted.
DecideUnchecked(w) ==
  /\ wpc[w] = "deciding"
  /\ Goto(w, "closing")
  /\ UNCHANGED <<rowVars, out, arqVars, apiVars, wjob, left, cut, gauge>>

DecideUncounted(w) ==
  /\ wpc[w] = "deciding"
  /\ Goto(w, IF Cancelled(wjob[w]) THEN "returned" ELSE "closing")
  /\ UNCHANGED <<rowVars, out, arqVars, apiVars, wjob, left, cut, gauge>>

Decide(w) ==
  /\ wpc[w] = "deciding"
  /\ IF Cancelled(wjob[w])
     THEN Goto(w, "returned") /\ gauge' = gauge - 1
     ELSE Goto(w, "closing") /\ UNCHANGED gauge
  /\ UNCHANGED <<rowVars, out, arqVars, apiVars, wjob, left, cut>>

Complete(w) ==
  /\ wpc[w] = "closing"
  /\ SetFinished(wjob[w], "completed")
  /\ gauge' = gauge - 1
  /\ Goto(w, "returned")
  /\ UNCHANGED <<out, arqVars, apiVars, wjob, left, cut>>

\* Adapter, sink or asset sink raises inside the try.
SinkRaises(w) ==
  /\ "sink" \in Faults
  /\ wpc[w] \in {"setup", "batching", "stopped"}
  /\ out' \in {out, [out EXCEPT ![wjob[w]] = "partial"]}
  /\ Goto(w, "failing")
  /\ UNCHANGED <<rowVars, arqVars, apiVars, wjob, left, cut, gauge>>

\* A query of the try raises; an UPDATE may have been applied before the
\* connection broke. The gauge increment follows the first UPDATE.
DbRaises(w) ==
  /\ "db" \in Faults
  /\ wpc[w] \in InTry \cup {"loaded"}
  /\ \/ UNCHANGED rowVars
     \/ wpc[w] = "loaded" /\ SetRunning(wjob[w])
     \/ wpc[w] = "closing" /\ SetFinished(wjob[w], "completed")
  /\ Goto(w, "failing")
  /\ UNCHANGED <<out, arqVars, apiVars, wjob, left, cut, gauge>>

\* The except clause; its own UPDATE may raise, applied or not, and then nothing
\* after it runs.
\*
\* Mutant: the except clause logs and counts, and leaves the row alone.
FailSilently(w) ==
  /\ wpc[w] = "failing"
  /\ gauge' = gauge - 1
  /\ Goto(w, "returned")
  /\ UNCHANGED <<rowVars, out, arqVars, apiVars, wjob, left, cut>>

Fail(w) ==
  /\ wpc[w] = "failing"
  /\ SetFinished(wjob[w], "failed")
  /\ gauge' = gauge - 1
  /\ Goto(w, "returned")
  /\ UNCHANGED <<out, arqVars, apiVars, wjob, left, cut>>

FailRaises(w) ==
  /\ "db" \in Faults
  /\ wpc[w] = "failing"
  /\ SetFinished(wjob[w], "failed") \/ UNCHANGED rowVars
  /\ Goto(w, "returned")
  /\ UNCHANGED <<out, arqVars, apiVars, wjob, left, cut, gauge>>

\* arq records the result: the job is not delivered again.
Release(w) ==
  /\ wpc[w] = "returned"
  /\ queue' = queue \ {wjob[w]}
  /\ Free(w)
  /\ UNCHANGED <<rowVars, out, tries, apiVars, gauge>>

\* arq's job_timeout cancels the coroutine. CancelledError is not an Exception:
\* the except clause does not run, and arq does not retry a timeout.
JobTimeout(w) ==
  /\ "timeout" \in Faults
  /\ wpc[w] \notin {"idle", "returned"}
  /\ queue' = queue \ {wjob[w]}
  /\ Free(w)
  /\ UNCHANGED <<rowVars, out, tries, apiVars, gauge>>

\* The worker process dies or is stopped, and starts again: its slots and its
\* metrics are lost, arq's unfinished jobs are not.
Crash ==
  /\ "crash" \in Faults
  /\ \E w \in Slots : wpc[w] # "idle"
  /\ wpc' = [w \in Slots |-> "idle"]
  /\ wjob' = [w \in Slots |-> NULL]
  /\ left' = [w \in Slots |-> 0]
  /\ cut' = [w \in Slots |-> FALSE]
  /\ gauge' = 0
  /\ UNCHANGED <<rowVars, out, arqVars, apiVars>>

-----------------------------------------------------------------------------
(* The sweep loop (export/sweep.py) and the clock                          *)

\* Mutant: any row with an old heartbeat.
StaleAnyStatus(j) == Exists(j) /\ Older(beat[j], SweepTimeout)

Stale(j) == status[j] = "running" /\ Older(beat[j], SweepTimeout)

\* mark_stale_jobs: one UPDATE over all orgs.
SweepMark ==
  /\ \E j \in Jobs : Stale(j)
  /\ status' = [j \in Jobs |-> IF Stale(j) THEN "failed" ELSE status[j]]
  /\ done' = [j \in Jobs |-> IF Stale(j) THEN 0 ELSE done[j]]
  /\ UNCHANGED <<created, beat, owner, out, arqVars, apiVars, slotVars, gauge>>

\* Mutant: the TTL counts from created_at, in any status.
OutlivedByCreation(j) == Exists(j) /\ Older(created[j], TTL)

Outlived(j) == status[j] \in {"completed", "failed"} /\ Older(done[j], TTL)

\* ttl_purge_jobs: one DELETE. The purged row's columns are gone.
SweepPurge ==
  /\ \E j \in Jobs : Outlived(j)
  /\ status' = [j \in Jobs |-> IF Outlived(j) THEN "purged" ELSE status[j]]
  /\ UNCHANGED <<stampVars, owner, out, arqVars, apiVars, slotVars, gauge>>

Later(age) == IF age = NULL \/ age = AgeCap THEN age ELSE age + 1

\* created_at is read of pending rows only and last_heartbeat_at of running ones
\* only, and a row that becomes running gets a new heartbeat: outside these
\* states the age is not observable, and saturates at once.
Unread(age) == IF age = NULL THEN NULL ELSE AgeCap

Tick ==
  /\ created' = [j \in Jobs |->
                   IF status[j] = "pending" THEN Later(created[j]) ELSE Unread(created[j])]
  /\ beat' = [j \in Jobs |->
                IF status[j] = "running" THEN Later(beat[j]) ELSE Unread(beat[j])]
  /\ done' = [j \in Jobs |-> Later(done[j])]
  /\ UNCHANGED <<status, owner, out, arqVars, apiVars, slotVars, gauge>>

-----------------------------------------------------------------------------
Request(c) ==
  \/ CreateCheck(c)
  \/ \E j \in Jobs : RetryRead(c, j)
  \/ RetryCheck(c)
  \/ QueueUnreachable(c)
  \/ \E j \in Jobs : Insert(c, j)
  \/ Enqueue(c)
  \/ EnqueueFails(c)
  \/ \E j \in Jobs : Cancel(c, j)

Run(w) ==
  \/ \E j \in Jobs : Pickup(w, j)
  \/ NoDatasink(w)
  \/ MarkRunning(w)
  \/ \E n \in 0..MaxBatches : Setup(w, n)
  \/ Batch(w)
  \/ CheckCancelled(w)
  \/ Finalise(w)
  \/ Decide(w)
  \/ Complete(w)
  \/ SinkRaises(w)
  \/ DbRaises(w)
  \/ Fail(w)
  \/ FailRaises(w)
  \/ Release(w)
  \/ JobTimeout(w)

Next ==
  \/ \E c \in Clients : Request(c)
  \/ \E w \in Slots : Run(w)
  \/ \E j \in Jobs : GiveUp(j)
  \/ Crash
  \/ SweepMark
  \/ SweepPurge
  \/ Tick

Spec == Init /\ [][Next]_vars

-----------------------------------------------------------------------------
(* Fairness. The sweep loop wakes every minute and swallows its exceptions,  *)
(* and time passes; nothing obliges a client to make another request.        *)

Daemons == WF_vars(Tick) /\ WF_vars(SweepMark) /\ WF_vars(SweepPurge)

\* The event loop of a worker that stays up resumes every coroutine, arq polls
\* the queue as long as a slot is free, and drops what has no tries left.
Progress(w) ==
  \/ \E j \in Jobs : Pickup(w, j)
  \/ MarkRunning(w) \/ \E n \in 0..MaxBatches : Setup(w, n)
  \/ Batch(w) \/ CheckCancelled(w) \/ Finalise(w) \/ Decide(w)
  \/ Complete(w) \/ Fail(w) \/ Release(w)

Service ==
  /\ \A w \in Slots : WF_vars(Progress(w))
  /\ \A j \in Jobs : WF_vars(GiveUp(j))

DaemonSpec == Spec /\ Daemons

-----------------------------------------------------------------------------
(* Safety                                                                  *)

Running(w) == wpc[w] \in InTry \cup {"failing"}
Claimed(j) == \E w \in Slots : wpc[w] \in InTry \cup {"loaded", "failing"} /\ wjob[w] = j
Awaited(j) == j \in queue \/ \E c \in Clients : hpc[c] = "inserted" /\ hjob[c] = j

\* A job is reported completed only if the output its destination holds is the
\* whole of it: no interleaving of cancels, sweeps, crashes and second runs lets
\* the completed status of one run stand on the partial output of another, or
\* of a loop a cancel broke (run_export_job from the cancel check in the loop to
\* the one after finalise).
CompletedIsWhole == \A j \in Jobs : status[j] = "completed" => out[j] = "whole"

\* The inductive invariant behind it. One slot at a time runs a job; a loop that a
\* cancel broke keeps its row cancelled up to the check after finalise; a run that
\* may complete has written everything; a run under way is of a row that does not
\* say completed.
Exclusive ==
  \A v, w \in Slots : wpc[v] # "idle" /\ wpc[w] # "idle" /\ wjob[v] = wjob[w] => v = w

SlotInv(w) ==
  /\ cut[w] => \/ wpc[w] \in {"failing", "returned"}
               \/ wpc[w] \in {"stopped", "deciding"} /\ Cancelled(wjob[w])
  /\ wpc[w] \in {"deciding", "closing"} /\ ~cut[w] => out[wjob[w]] = "whole"
  /\ wpc[w] \in InTry => status[wjob[w]] # "completed"

OutputInv == TypeOK /\ Exclusive /\ (\A w \in Slots : SlotInv(w)) /\ CompletedIsWhole

\* As long as no worker crashes, times out or loses the database, a row that says
\* running has a slot working on it: no error path of run_export_job leaves the
\* status behind.
RunningHasWorker ==
  Faults \cap {"crash", "timeout", "db"} = {} =>
    \A j \in Jobs : status[j] = "running" => Claimed(j)

\* The active-jobs gauge is incremented once and decremented on four paths, and still
\* counts the runs of the worker process: over cancels, a failing sink, a missing
\* datasink and restarts. Runs only: its description in export_metrics.py says
\* "running + pending", and a pending job is never counted, nor a running row whose
\* worker died. (A database error before the increment or a job timeout breaks it.)
GaugeCountsRuns ==
  Faults \cap {"timeout", "db"} = {} => gauge = Cardinality({w \in Slots : Running(w)})

\* A job cancelled before a worker claims it is never claimed, and stays cancelled:
\* not by a delayed or repeated delivery, not by the request that enqueues it
\* after the cancel.
CancelHonoured ==
  [][\A j \in Jobs :
       status[j] = "cancelled" /\ ~Claimed(j) => status'[j] = "cancelled" /\ ~Claimed(j)']_vars

\* Once the queue has finished with a job and no request is about to enqueue it,
\* its terminal status is final: it can only be purged. Sweeps, retries and
\* other runs do not touch it.
SettledIsFinal ==
  [][\A j \in Jobs :
       status[j] \in Terminal /\ ~Claimed(j) /\ ~Awaited(j)
         => status'[j] \in {status[j], "purged"}]_vars

\* The job lifecycle the rest of the system may rely on.
Lifecycle == INSTANCE JobLifecycle WITH
  stage <- [j \in Jobs |-> IF Claimed(j) THEN "claimed" ELSE IF Awaited(j) THEN "waiting" ELSE "out"]

\* Every behaviour of handlers, queue, slots and sweep is one of the lifecycle.
ImplementsLifecycle == Lifecycle!LSpec

-----------------------------------------------------------------------------
(* Liveness                                                                *)

\* No row says running for ever, whatever happens to its worker: under the sweep
\* and the clock alone, without any assumption on workers or clients.
NoStuckRunning == \A j \in Jobs : status[j] = "running" ~> status[j] # "running"

\* The queue drains: whatever fails, and however often a worker dies, a job that is
\* in it is eventually done with, as long as workers come back.
QueueDrains == Service => \A j \in Jobs : j \in queue ~> j \notin queue

\* A finished job is eventually purged, or run again by a second delivery: a completed
\* one, and a failed one as well if its row says when. (The two expiries of
\* count_active_jobs_for_org do not write completed_at: what they fail stays.)
FinishedIsPurged ==
  \A j \in Jobs :
    status[j] = "completed" \/ (status[j] = "failed" /\ done[j] # NULL)
      ~> status[j] \in {"purged", "running"}

-----------------------------------------------------------------------------
(* What the documentation says and the code does not do                    *)

\* "Workers processing slow batches emit a keep-alive ... to prevent false-positive
\* stale detection": while a slot is in the middle of a batch, its job is not failed
\* by another.
InBatch(w) == wpc[w] = "batching" /\ left[w] > 0
WorkingIsNotSwept ==
  [][\A w \in Slots :
       InBatch(w) /\ status[wjob[w]] = "running" => status'[wjob[w]] # "failed"]_vars
=============================================================================
