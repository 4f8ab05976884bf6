----------------------------- MODULE Statements -----------------------------
(***************************************************************************)
(* The statements that export/db.py, db/connections.py and the worker send *)
(* to the pool. A statement is what its text says: its verb and table, the *)
(* parameters $n that columns are set or compared to, and the literals     *)
(* they are set or compared to; and the fragments of it, in lower case,    *)
(* that the pool of the demo looks for, as they are worded and spaced (a   *)
(* blank, or a comma, is written _).                                       *)
(* updated_at, the counts of skipped records and failed assets, and the    *)
(* settings that are only stored are left out.                             *)
(***************************************************************************)
EXTENDS Integers, Sequences, FiniteSets

CONSTANT NULL

\* What a query for one row returns when there is none: None, in Python.
NoRow == [none |-> TRUE]

\* set, where, before: the columns with the numbers of their parameters; put, among: with
\* literals. A where clause names its columns in the order of their numbers.
Blank ==
  [verb |-> "select", table |-> "export_jobs", what |-> "*",
   set |-> <<>>, put |-> <<>>, where |-> <<>>, among |-> <<>>, before |-> <<>>, paged |-> FALSE, text |-> {}]
On(table) == [Blank EXCEPT !.table = table]
From == [connections |-> "from_connections", export_jobs |-> "from_export_jobs", sync_jobs |-> "from_sync_jobs"]

\* The columns of f, and the others of g.
Over(f, g) == [c \in DOMAIN f \cup DOMAIN g |-> IF c \in DOMAIN f THEN f[c] ELSE g[c]]

\* The columns, each with the parameter of its number.
Bound(columns, args) == [c \in DOMAIN columns |-> args[columns[c]]]

\* What a pool answers: the tables after the statement, and its result.
Answer(db, res) == [db |-> db, res |-> res]

\* The ids by their time of creation, which no two have in common: the n-th has n - 1 newer ones.
Newest(ids, created) ==
  [n \in 1..Cardinality(ids) |-> CHOOSE i \in ids : Cardinality({k \in ids : created[k] > created[i]}) = n - 1]
Created(rows, ids) == [i \in ids |-> rows[i].created_at]
RowsOf(rows, order) == [n \in DOMAIN order |-> rows[order[n]]]

\* Up to limit members after the first offset ones.
Window(s, limit, offset) == [n \in 1..(IF offset + limit < Len(s) THEN limit ELSE Len(s) - offset) |-> s[offset + n]]

-----------------------------------------------------------------------------
\* The statements.

JobColumns ==
  [org_id |-> 1, user_id |-> 2, datasource_ref |-> 3, datasink_name |-> 4, destination_dataset |-> 5,
   asset_resolution |-> 6, asset_datasink_name |-> 7, asset_dataset |-> 8, webhook_url |-> 9, field_extraction |-> 10]
InsertJob == [Blank EXCEPT !.verb = "insert", !.set = JobColumns, !.text = {"insert_into_export_jobs", "returning_*"}]
InsertConnection ==
  [On("connections") EXCEPT !.verb = "insert", !.set = [owner_key |-> 1, label |-> 2, credentials_enc |-> 3],
                            !.text = {"insert_into_connections", "returning_*"}]

ById(table) == [On(table) EXCEPT !.where = [id |-> 1], !.text = {From[table], "where_id_=_$1"}]
StatusOf ==
  [ById("export_jobs") EXCEPT !.what = "status",
     !.text = {"from_export_jobs", "select_status_from_export_jobs", "where_id_=_$1"}]
OwnConnection ==
  [On("connections") EXCEPT !.where = [id |-> 1, owner_key |-> 2],
     !.text = {"from_connections", "where_id_=_$1", "where_id_=_$1_and_owner_key_=_$2"}]
OwnConnections ==
  [On("connections") EXCEPT !.what = "list", !.where = [owner_key |-> 1],
                            !.text = {"from_connections", "where_owner_key_=_$1"}]
CountReferencing ==
  [On("sync_jobs") EXCEPT !.what = "count", !.where = [connection_id |-> 1], !.text = {"from_sync_jobs", "count(*)"}]

UpdateJob(set, n) ==
  [Blank EXCEPT !.verb = "update", !.set = set, !.where = [id |-> n], !.text = {"update_export_jobs", "where_id=$"}]
SetRunning == UpdateJob([status |-> 1, started_at |-> 2, last_heartbeat_at |-> 2], 3)
SetFinished == UpdateJob([status |-> 1, completed_at |-> 2, error_message |-> 3], 4)
SetProgress == UpdateJob([records_processed |-> 1, last_heartbeat_at |-> 2], 3)
SetTotal == UpdateJob([records_total |-> 1], 2)
SetExternal == UpdateJob([external_dataset_id |-> 1], 2)

Unfinished == [status |-> {"pending", "running"}]
\* Mutant: spaces around the sign, as the other statements have them.
CancelReworded ==
  [UpdateJob(<<>>, 1) EXCEPT !.put = [status |-> "cancelled"], !.among = Unfinished,
     !.text = {"update_export_jobs", "where_id=$", "status_=_'cancelled'", "status_in_('pending'_'running')"}]
CancelActive ==
  [UpdateJob(<<>>, 1) EXCEPT !.put = [status |-> "cancelled"], !.among = Unfinished,
     !.text = {"update_export_jobs", "where_id=$", "status='cancelled'", "status_in_('pending'_'running')"}]
Equals == [running |-> "status_=_'running'", pending |-> "status_=_'pending'"]
Expire(status, column) ==
  [Blank EXCEPT !.verb = "update", !.put = [status |-> "failed", error_message |-> "job_timed_out"],
                !.where = [org_id |-> 1], !.among = [status |-> {status}], !.before = [c \in {column} |-> 2],
                !.text = {"update_export_jobs", "status='failed'", "org_id=$1", Equals[status]}]
CountActive ==
  [Blank EXCEPT !.what = "count", !.where = [org_id |-> 1], !.among = Unfinished,
                !.text = {"from_export_jobs", "count(*)", "status_in_('pending'_'running')"}]
ListJobs(where) == [Blank EXCEPT !.what = "list", !.where = where, !.paged = TRUE, !.text = {"from_export_jobs"}]
CountJobs(where) == [Blank EXCEPT !.what = "count", !.where = where, !.text = {"from_export_jobs", "count(*)"}]

Resets == [status |-> "status_=_'untested'", last_tested_at |-> "last_tested_at_=_null"]
UpdateConnection(set, put) ==
  [On("connections") EXCEPT !.verb = "update", !.what = "returning", !.set = set, !.put = put,
                            !.where = [owner_key |-> 1, id |-> 2],
                            !.text = {"update_connections", "returning_*"} \cup {Resets[c] : c \in DOMAIN put}]
SetTested ==
  [On("connections") EXCEPT !.verb = "update", !.set = [status |-> 1, last_tested_at |-> 2], !.where = [id |-> 3],
                            !.text = {"update_connections"}]
DeleteConnection ==
  [OwnConnection EXCEPT !.verb = "delete", !.text = {"delete_from_connections", "from_connections", "where_id_=_$1"}]
=============================================================================
