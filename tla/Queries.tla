------------------------------ MODULE Queries ------------------------------
(***************************************************************************)
(* The handlers that send the statements. What a statement does is left to *)
(* the pool, a parameter of this module: Exec(db, statement, args) is the  *)
(* tables after it and its result.                                         *)
(*                                                                         *)
(* A handler runs from a request, or from the answer of another service,   *)
(* to the next point at which it waits for something else than the pool. A *)
(* time that nothing compares is "then".                                   *)
(***************************************************************************)
EXTENDS Statements

CONSTANTS
  Exec(_, _, _),
  StaleTimeout,  \* _STALE_JOB_TIMEOUT_MINUTES
  MaxActive,     \* max_concurrent_jobs_per_org
  PageSize

-----------------------------------------------------------------------------
\* The handlers of the job routes. A caller has an org, a user and a role.

Status(db, code) == Answer(db, [code |-> code])

InsertExportJob(db, data, caller) ==
  LET dataset == IF data.adest # NULL THEN data.adest ELSE <<data.dest, "assets">>
      sink == IF data.asink # NULL THEN data.asink ELSE data.sink
      assets == IF data.resolve THEN <<sink, dataset>> ELSE <<NULL, NULL>>
  IN Exec(db, InsertJob, <<caller.org, caller.user, data.source, data.sink, data.dest, data.resolve,
                           assets[1], assets[2], data.hook, data.extract>>)

\* _row_to_response: a column the row does not have counts as FALSE.
Absent == [field_extraction |-> FALSE]
Response(row) == Over(row, Absent)

\* The expiry of both kinds and the count, in one transaction.
CountActiveJobsForOrg(db, org) ==
  LET cutoff == db.now - StaleTimeout
      running == Exec(db, Expire("running", "last_heartbeat_at"), <<org, cutoff>>)
      pending == Exec(running.db, Expire("pending", "created_at"), <<org, cutoff>>)
  IN Exec(pending.db, CountActive, <<org>>)

CanSee(caller, row) ==
  \/ caller.role = "super_admin"
  \/ caller.role = "org_admin" /\ row.org_id = caller.org
  \/ row.org_id = caller.org /\ row.user_id = caller.user

GetExportJob(db, caller, job) ==
  LET row == Exec(db, ById("export_jobs"), <<job>>).res
  IN IF row # NoRow /\ CanSee(caller, row) THEN Response(row) ELSE NoRow

Full(active) == active >= MaxActive

Admit(db, data, caller) ==
  LET active == CountActiveJobsForOrg(db, caller.org)
  IN IF Full(active.res) THEN Status(active.db, "429")
     ELSE [InsertExportJob(active.db, data, caller) EXCEPT !.res = Response(@)]

\* Mutant: the data sink of the assets is left to the default again.
CopiedAnew(row) ==
  [source |-> row.datasource_ref, sink |-> row.datasink_name, dest |-> row.destination_dataset,
   resolve |-> row.asset_resolution, asink |-> NULL, adest |-> row.asset_dataset,
   hook |-> row.webhook_url, extract |-> FALSE]
\* The settings a retry copies; the field extraction is not one of them.
Copied(row) ==
  [source |-> row.datasource_ref, sink |-> row.datasink_name, dest |-> row.destination_dataset,
   resolve |-> row.asset_resolution, asink |-> row.asset_datasink_name, adest |-> row.asset_dataset,
   hook |-> row.webhook_url, extract |-> FALSE]

RetryExportJob(db, caller, job) ==
  LET row == GetExportJob(db, caller, job)
  IN IF row = NoRow THEN Status(db, "404")
     ELSE IF row.status # "failed" THEN Status(db, "400")
     ELSE Admit(db, Copied(row), caller)

\* The conditions are numbered as they are added, the limit and offset last.
ListExportJobs(db, caller, page, status) ==
  LET org == IF caller.role = "super_admin" THEN <<>> ELSE <<caller.org>>
      args == org \o IF status = NULL THEN <<>> ELSE <<status>>
      where == Over(IF org = <<>> THEN <<>> ELSE [org_id |-> 1], IF status = NULL THEN <<>> ELSE [status |-> Len(args)])
      items == Exec(db, ListJobs(where), args \o <<PageSize, (page - 1) * PageSize>>).res
  IN Answer(db, [items |-> [n \in DOMAIN items |-> Response(items[n])],
                 total |-> Exec(db, CountJobs(where), args).res])

CancelExportJob(db, caller, job) ==
  LET row == Exec(db, ById("export_jobs"), <<job>>).res
      may == \/ caller.role = "super_admin"
             \/ row.org_id = caller.org /\ (caller.role = "org_admin" \/ row.user_id = caller.user)
      update == Exec(db, CancelActive, <<job>>)
      ok == row # NoRow /\ may /\ row.status \in {"pending", "running"} /\ update.res = 1
  IN IF ok THEN Status(update.db, "204")
     ELSE Status(db, IF GetExportJob(db, caller, job) = NoRow THEN "404" ELSE "409")

-----------------------------------------------------------------------------
\* The handlers of the connection routes. owner is the caller's public_key.

PatchConnection(db, owner, conn, label, creds) ==
  LET args == <<owner, conn>> \o (IF label = NULL THEN <<>> ELSE <<label>>)
              \o IF creds = NULL THEN <<>> ELSE <<creds>>
      set == Over(IF label = NULL THEN <<>> ELSE [label |-> 3], IF creds = NULL THEN <<>> ELSE [credentials_enc |-> Len(args)])
      put == IF creds = NULL THEN <<>> ELSE [status |-> "untested", last_tested_at |-> NULL]
  IN IF label = NULL /\ creds = NULL THEN Exec(db, OwnConnection, <<conn, owner>>)
     ELSE Exec(db, UpdateConnection(set, put), args)

RemoveConnection(db, owner, conn) ==
  IF Exec(db, OwnConnection, <<conn, owner>>).res = NoRow THEN Status(db, "404")
  ELSE IF Exec(db, CountReferencing, <<conn>>).res > 0 THEN Status(db, "409")
  ELSE Status(Exec(db, DeleteConnection, <<conn, owner>>).db, "204")

-----------------------------------------------------------------------------
\* The list of one owner.
ListConnections(db, owner) ==
  Answer(db, [items |-> Exec(db, OwnConnections, <<owner>>).res])
\* The ping has been answered; the row may be gone.
UpdateStatus(db, conn, status) ==
  Status(Exec(db, SetTested, <<status, "then", conn>>).db, "200")

-----------------------------------------------------------------------------
\* run_export_job, from one wait for a source or a sink to the next. The answer
\* is where it waits then; "done" when it has returned.

FinishedArgs(status, error, job) == <<status, "then", error, job>>

Finished(db, job, status, error) ==
  Answer(Exec(db, SetFinished, FinishedArgs(status, error, job)).db, [at |-> "done"])

Begin(db, job) ==
  LET row == Exec(db, ById("export_jobs"), <<job>>).res
      running == Exec(db, SetRunning, <<"running", db.now, job>>).db
      source == Exec(running, ById("connections"), <<row.datasource_ref>>).res
  IN IF row = NoRow \/ row.status = "cancelled" THEN Answer(db, [at |-> "done"])
     ELSE IF row.datasource_ref # NULL /\ source = NoRow THEN Finished(running, job, "failed", "error")
     ELSE Answer(running, [at |-> "counting"])

Counted(db, job, total) == Answer(Exec(db, SetTotal, <<total, job>>).db, [at |-> "opening"])

\* The sinks have been asked and have their data sets, of which the first may have an id.
Opened(db, job, total, external) ==
  Answer(IF external = NULL THEN db ELSE Exec(db, SetExternal, <<external, job>>).db,
         [at |-> IF total > 0 THEN "paging" ELSE "closing"])

Cancelled(status) == status = "cancelled"
IsCancelled(db, job) == Cancelled(Exec(db, StatusOf, <<job>>).res)

\* A page of one record has been exported: the last one, or the row says cancelled.
Paged(db, job, processed, total) ==
  LET progress == Exec(db, SetProgress, <<processed, db.now, job>>).db
  IN Answer(progress, [at |-> IF processed = total \/ IsCancelled(progress, job) THEN "closing" ELSE "paging"])

\* The sinks are finalised.
Closed(db, job) ==
  IF IsCancelled(db, job) THEN Answer(db, [at |-> "done"])
  ELSE Finished(db, job, "completed", NULL)

-----------------------------------------------------------------------------
\* The owner of connections is the caller's public_key.
Owner(caller) == <<caller.org, caller.user>>

Perform(db, r) ==
  CASE r.op = "create"  -> Admit(db, r.data, r.caller)
    [] r.op = "retry"   -> RetryExportJob(db, r.caller, r.job)
    [] r.op = "get"     -> Answer(db, GetExportJob(db, r.caller, r.job))
    [] r.op = "list"    -> ListExportJobs(db, r.caller, r.page, r.status)
    [] r.op = "cancel"  -> CancelExportJob(db, r.caller, r.job)
    [] r.op = "connect" -> Exec(db, InsertConnection, <<r.owner, "label", "creds">>)
    [] r.op = "show"    -> Exec(db, OwnConnection, <<r.conn, r.owner>>)
    [] r.op = "index"   -> ListConnections(db, r.owner)
    [] r.op = "patch"   -> PatchConnection(db, r.owner, r.conn, r.label, r.creds)
    [] r.op = "remove"  -> RemoveConnection(db, r.owner, r.conn)
    [] r.op = "tested"  -> UpdateStatus(db, r.conn, r.status)
    [] r.op = "begin"   -> Begin(db, r.job)
    [] r.op = "counted" -> Counted(db, r.job, r.total)
    [] r.op = "opened"  -> Opened(db, r.job, r.total, r.external)
    [] r.op = "paged"   -> Paged(db, r.job, r.processed, r.total)
    [] r.op = "closed"  -> Closed(db, r.job)
    [] r.op = "raised"  -> Finished(db, r.job, "failed", "error")
    [] r.op = "wait"    -> Answer([db EXCEPT !.now = @ + StaleTimeout], NULL)
=============================================================================
