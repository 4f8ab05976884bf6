------------------------------ MODULE DemoPool ------------------------------
(***************************************************************************)
(* Demo mode: the two tables are dictionaries, a statement is recognised   *)
(* by what its text contains, and a job is run by a task of the process    *)
(* that serves the requests. No statement waits, so a handler of Queries   *)
(* is one step, and so is a task's stretch between two waits.              *)
(*                                                                         *)
(* A dictionary is a function on the ids in it, a row one on its columns.  *)
(* A definition introduced by "Mutant" is the next one with a plausible    *)
(* bug.                                                                    *)
(***************************************************************************)
EXTENDS Statements

CONSTANTS
  StaleTimeout,  \* _STALE_JOB_TIMEOUT_MINUTES
  MaxActive,     \* max_concurrent_jobs_per_org
  PageSize,
  Callers,       \* [org, user, role]
  Submissions,   \* what jobs ask for; a source NULL is a system source
  Labels, Creds, \* what a PATCH may set
  Ids, Totals, Pages, MaxTime  \* bounds: ids of rows, records of a source, pages, the clock

ASSUME DemoAssumption == {StaleTimeout, MaxActive, PageSize} \subseteq Nat \ {0} /\ NULL \notin Nat
ASSUME SubmissionsAssumption ==
  \A data \in Submissions :
    DOMAIN data = {"source", "sink", "dest", "resolve", "asink", "adest", "hook", "extract"}

VARIABLES
  db,       \* the two dictionaries, the number of ids given, and the clock
  tasks,    \* where the tasks of the jobs wait
  retryOf   \* for a job made by a retry: the job it repeats

vars == <<db, tasks, retryOf>>

Active == {"pending", "running"}
Terminal == {"completed", "failed", "cancelled"}
Jobs == DOMAIN db.export_jobs

TypeOK ==
  /\ Jobs \cup DOMAIN db.connections \subseteq 1..db.issued
  /\ db.issued \in Ids \cup {0}
  /\ \A i \in Jobs :
       LET r == db.export_jobs[i]
       IN /\ r.id = i
          /\ r.status \in Active \cup Terminal
          /\ r.records_total \in Totals \cup {NULL}
          /\ r.completed_at # NULL => r.status # "pending"
  /\ \A i \in DOMAIN db.connections : db.connections[i].status \in {"untested", "ok", "error"}
  /\ DOMAIN tasks \subseteq Jobs
  /\ \A i \in DOMAIN tasks : tasks[i] \in {"scheduled", "counting", "opening", "paging", "closing", "done"}

Init ==
  /\ db = [export_jobs |-> <<>>, connections |-> <<>>, sync_jobs |-> <<>>, issued |-> 0, now |-> 0]
  /\ tasks = <<>>
  /\ retryOf = <<>>

-----------------------------------------------------------------------------
\* The dispatcher. What the code looks for in the text it looks for here, in its order.

Get(rows, id) == IF id \in DOMAIN rows THEN rows[id] ELSE NoRow
Put(tables, table, id, row) == [tables EXCEPT ![table] = Over([i \in {id} |-> row], @)]
\* Every column = $n of the text up to $last, in SET and in WHERE alike, but for some.
Pairs(st) == Over(st.where, st.set)
Written(st, args, last, but) ==
  [c \in {c \in DOMAIN Pairs(st) \ but : Pairs(st)[c] <= last} |-> args[Pairs(st)[c]]]
InOrder(rows, ids) == Newest(ids, Created(rows, ids))

ConnInsert(tables, args) ==
  LET id == tables.issued + 1
      row == [id |-> id, owner_key |-> args[1], label |-> args[2], credentials_enc |-> args[3],
              status |-> "untested", last_tested_at |-> NULL, created_at |-> tables.now]
  IN Answer([Put(tables, "connections", id, row) EXCEPT !.issued = id, !.now = @ + 1], row)

ConnSelect(tables, st, args) ==
  LET rows == tables.connections
      row == Get(rows, args[1])
      own == {i \in DOMAIN rows : rows[i].owner_key = args[1]}
  IN Answer(tables,
       IF "where_id_=_$1_and_owner_key_=_$2" \in st.text
         THEN IF row # NoRow /\ row.owner_key = args[2] THEN row ELSE NoRow
       ELSE IF "where_id_=_$1" \in st.text THEN row
       ELSE IF "where_owner_key_=_$1" \in st.text THEN RowsOf(rows, InOrder(rows, own)) ELSE NoRow)

\* The columns that a PATCH of the credentials resets.
Untested == [status |-> "untested", last_tested_at |-> NULL]
Reset(st) == [c \in {c \in DOMAIN Untested : Resets[c] \in st.text} |-> Untested[c]]

\* With RETURNING the owner comes before the id; without, the three parameters
\* are those of update_connection_status.
ConnUpdate(tables, st, args) ==
  LET returns == "returning_*" \in st.text
      rows == tables.connections
      id == IF returns THEN args[2] ELSE args[3]
      row == Get(rows, id)
      new == IF returns THEN Over(Reset(st), Over(Written(st, args, Len(args), {"owner_key", "id"}), row))
             ELSE [row EXCEPT !.status = args[1], !.last_tested_at = args[2]]
      found == row # NoRow /\ (returns => row.owner_key = args[1])
  IN IF returns
     THEN IF found THEN Answer(Put(tables, "connections", id, new), new) ELSE Answer(tables, NoRow)
     ELSE IF found THEN Answer(Put(tables, "connections", id, new), 1) ELSE Answer(tables, 0)

ConnDelete(tables, args) ==
  LET rows == tables.connections
      row == Get(rows, args[1])
  IN IF row # NoRow /\ row.owner_key = args[2]
     THEN Answer([tables EXCEPT !.connections = [i \in DOMAIN rows \ {args[1]} |-> rows[i]]], 1)
     ELSE Answer(tables, 0)

\* The parameters are taken by their places, but for the last of the statement,
\* the field extraction.
JobInsert(tables, args) ==
  LET id == tables.issued + 1
      row == [id |-> id, org_id |-> args[1], user_id |-> args[2], datasource_ref |-> args[3],
              datasink_name |-> args[4], destination_dataset |-> args[5], asset_resolution |-> args[6],
              asset_datasink_name |-> args[7], asset_dataset |-> args[8], webhook_url |-> args[9],
              status |-> "pending", records_total |-> NULL, records_processed |-> 0, error_message |-> NULL,
              created_at |-> tables.now, started_at |-> NULL, completed_at |-> NULL,
              last_heartbeat_at |-> NULL, external_dataset_id |-> NULL]
  IN Answer([Put(tables, "export_jobs", id, row) EXCEPT !.issued = id, !.now = @ + 1], row)

Filtered(rows, st, args, last) ==
  LET filters == Written(st, args, last, {})
  IN {i \in DOMAIN rows :
        /\ \A c \in DOMAIN filters : rows[i][c] = filters[c]
        /\ "status_in_('pending'_'running')" \in st.text => rows[i].status \in Active}

Listed(rows, st, args) ==
  LET n == Len(args)
      ids == Filtered(rows, st, args, n - 2)
  IN RowsOf(rows, Window(InOrder(rows, ids), args[n - 1], args[n]))

\* A call is for one value, for a row, or for many.
JobSelect(tables, st, args) ==
  LET rows == tables.export_jobs
      row == Get(rows, args[1])
      value == st.what \in {"status", "count"}
  IN Answer(tables,
       IF value /\ "select_status_from_export_jobs" \in st.text THEN IF row = NoRow THEN NULL ELSE row.status
       ELSE IF value /\ "count(*)" \in st.text THEN Cardinality(Filtered(rows, st, args, Len(args)))
       ELSE IF "where_id_=_$1" \in st.text THEN row
       ELSE IF st.what = "list" THEN Listed(rows, st, args) ELSE NoRow)

\* The expiries of count_active_jobs_for_org, told apart by the status they name.
Expires(st, args, row) ==
  /\ "org_id=$1" \in st.text /\ row.org_id = args[1]
  /\ IF Equals["running"] \in st.text
     THEN row.status = "running" /\ (row.last_heartbeat_at = NULL \/ row.last_heartbeat_at < args[2])
     ELSE Equals["pending"] \in st.text /\ row.status = "pending" /\ row.created_at < args[2]

TimedOut == [status |-> "failed", error_message |-> "job_timed_out"]

JobUpdate(tables, st, args) ==
  LET rows == tables.export_jobs
      cancels == "status='cancelled'" \in st.text
      expires == "status='failed'" \in st.text
      ids == IF cancels THEN {i \in DOMAIN rows \cap {args[1]} : rows[i].status \in Active}
             ELSE IF expires THEN {i \in DOMAIN rows : Expires(st, args, rows[i])}
             ELSE IF "where_id=$" \in st.text THEN DOMAIN rows \cap {args[st.where["id"]]} ELSE {}
      new(row) == IF cancels THEN [row EXCEPT !.status = "cancelled"]
                  ELSE IF expires THEN Over(TimedOut, row)
                  ELSE Over(Written(st, args, Len(args), {"id"}), row)
  IN Answer([tables EXCEPT !.export_jobs = [i \in DOMAIN rows |-> IF i \in ids THEN new(rows[i]) ELSE rows[i]]],
            Cardinality(ids))

Dispatch(tables, st, args) ==
  LET says(fragment) == fragment \in st.text
  IN IF says("insert_into_connections") THEN ConnInsert(tables, args)
     ELSE IF says("delete_from_connections") THEN ConnDelete(tables, args)
     ELSE IF says("update_connections") THEN ConnUpdate(tables, st, args)
     ELSE IF says("from_connections") THEN ConnSelect(tables, st, args)
     ELSE IF says("from_sync_jobs") THEN Answer(tables, 0)
     ELSE IF says("insert_into_export_jobs") THEN JobInsert(tables, args)
     ELSE IF says("from_export_jobs") THEN JobSelect(tables, st, args)
     ELSE IF says("update_export_jobs") THEN JobUpdate(tables, st, args)
     ELSE Answer(tables, "NotImplementedError")

-----------------------------------------------------------------------------
\* The handlers over these tables.
Demo == INSTANCE Queries WITH Exec <- Dispatch

\* What can be asked, as records with the parameters.

Owners == {Demo!Owner(c) : c \in Callers}
OfJobs == [op : {"retry", "get", "cancel"}, caller : Callers, job : Ids]
OfTables ==
  [op : {"create"}, caller : Callers, data : Submissions]
  \cup [op : {"list"}, caller : Callers, page : 1..Pages, status : {NULL, "pending", "failed"}]
  \cup [op : {"connect", "index"}, owner : Owners] \cup [op : {"wait"}]
OfConnections ==
  [op : {"show", "remove"}, owner : Owners, conn : Ids]
  \cup [op : {"patch"}, owner : Owners, conn : Ids, label : Labels \cup {NULL}, creds : Creds \cup {NULL}]
  \cup [op : {"tested"}, conn : Ids, status : {"ok", "error"}]
Externals == {"ext", NULL}
OfTasks ==
  [op : {"begin", "closed", "raised"}, job : Ids] \cup [op : {"counted"}, job : Ids, total : Totals]
  \cup [op : {"opened"}, job : Ids, total : Totals, external : Externals]
  \cup [op : {"paged"}, job : Ids, processed : Totals \ {0}, total : Totals]
Requests == OfJobs \cup OfTables \cup OfConnections \cup OfTasks

-----------------------------------------------------------------------------
\* The requests, each with what it does besides the tables.

Answered(r) == Demo!Perform(db, r)
Serve(r) == db' = Answered(r).db
Added == DOMAIN db'.export_jobs \ Jobs

\* Mutant: as the README has it, nothing runs the job.
EnqueueNothing(jobs) == UNCHANGED tasks
\* DemoArqPool.enqueue_job: a task, with no second try.
Enqueue(jobs) == tasks' = Over([i \in jobs |-> "scheduled"], tasks)

Create(c, data) ==
  /\ db.issued + 1 \in Ids
  /\ data.source # NULL => data.source <= db.issued
  /\ Serve([op |-> "create", caller |-> c, data |-> data])
  /\ Enqueue(Added)
  /\ UNCHANGED retryOf

Retry(c, i) ==
  /\ i \in Jobs
  /\ db.issued + 1 \in Ids
  /\ Serve([op |-> "retry", caller |-> c, job |-> i])
  /\ Enqueue(Added)
  /\ retryOf' = Over([j \in Added |-> i], retryOf)

Asks(r) == Serve(r) /\ UNCHANGED <<tasks, retryOf>>

Cancel(c, i) == i \in Jobs /\ Asks([op |-> "cancel", caller |-> c, job |-> i])

\* A bound: the connections change, but for their end, while there are no jobs.
Connections == DOMAIN db.connections
Connect(c) == Jobs = {} /\ db.issued + 1 \in Ids /\ Asks([op |-> "connect", owner |-> Demo!Owner(c)])
Patch(c, i, label, creds) ==
  /\ Jobs = {} /\ i \in Connections
  /\ Asks([op |-> "patch", owner |-> Demo!Owner(c), conn |-> i, label |-> label, creds |-> creds])
Delete(c, i) == i \in Connections /\ Asks([op |-> "remove", owner |-> Demo!Owner(c), conn |-> i])
Tested(i, s) == Jobs = {} /\ i \in Connections /\ Asks([op |-> "tested", conn |-> i, status |-> s])

-----------------------------------------------------------------------------
\* The tasks.

Runs(i, at, r) ==
  /\ i \in DOMAIN tasks /\ tasks[i] \in at
  /\ Serve(r)
  /\ tasks' = [tasks EXCEPT ![i] = Answered(r).res.at]
  /\ UNCHANGED retryOf

Start(i) == Runs(i, {"scheduled"}, [op |-> "begin", job |-> i])
CountTotal(i, n) == Runs(i, {"counting"}, [op |-> "counted", job |-> i, total |-> n])
Open(i, external) ==
  Runs(i, {"opening"}, [op |-> "opened", job |-> i, total |-> db.export_jobs[i].records_total, external |-> external])
Page(i) ==
  Runs(i, {"paging"}, [op |-> "paged", job |-> i, processed |-> db.export_jobs[i].records_processed + 1,
                       total |-> db.export_jobs[i].records_total])
Close(i) == Runs(i, {"closing"}, [op |-> "closed", job |-> i])
Raise(i) == Runs(i, {"counting", "opening", "paging", "closing"}, [op |-> "raised", job |-> i])

\* Time passes when nothing is ready to run: a task that has been created runs
\* up to its first wait before that.
Wait ==
  /\ db.now + StaleTimeout <= MaxTime
  /\ \A i \in DOMAIN tasks : tasks[i] # "scheduled"
  /\ Asks([op |-> "wait"])

\* The call of the source or the sink that the task waits for has ended.
Resume(i) ==
  \/ \E n \in Totals : CountTotal(i, n)
  \/ \E external \in Externals : Open(i, external)
  \/ Page(i) \/ Close(i) \/ Raise(i)

Next ==
  \/ \E c \in Callers :
       \/ \E data \in Submissions : Create(c, data)
       \/ \E i \in Ids :
            \/ Retry(c, i) \/ Cancel(c, i) \/ Delete(c, i)
            \/ \E label \in Labels \cup {NULL}, creds \in Creds \cup {NULL} : Patch(c, i, label, creds)
       \/ Connect(c)
  \/ \E i \in Ids :
       \/ Start(i) \/ Resume(i)
       \/ \E s \in {"ok", "error"} : Tested(i, s)
  \/ Wait

\* The event loop runs what is ready.
Fairness == \A i \in Ids : WF_vars(Start(i))
Spec == Init /\ [][Next]_vars /\ Fairness

-----------------------------------------------------------------------------
\* In every state, every request has the answer it has over the database, and
\* leaves the same tables. A row of the demo has no field_extraction; wherever it
\* is read, that counts as FALSE, so that a job is made as if it had not asked for any.
Sql == INSTANCE SqlTables
SqlExec(tables, st, args) == Sql!Sql(tables, st, args)
Database == INSTANCE Queries WITH Exec <- SqlExec
Shown(tables) == [tables EXCEPT !.export_jobs = [i \in DOMAIN @ |-> Demo!Response(@[i])]]
Plain(data) == [data EXCEPT !.extract = FALSE]
WithoutExtraction(r) == IF r.op = "create" THEN [r EXCEPT !.data = Plain(@)] ELSE r
AnswersAsSql ==
  LET shown == Shown(db)
  IN \A r \in Requests :
       LET demo == Answered(r)
           sql == Database!Perform(shown, WithoutExtraction(r))
       IN demo.res = sql.res /\ Shown(demo.db) = sql.db

\* A retry has the settings of the job it repeats, those among them that were
\* filled in when that one was inserted; so has the retry of a retry.
Settings(row) == [c \in {c \in DOMAIN JobColumns : JobColumns[c] \in 3..9} |-> row[c]]
RetryRepeats ==
  \A i \in DOMAIN retryOf : Settings(db.export_jobs[i]) = Settings(db.export_jobs[retryOf[i]])

\* Every job ends, with no worker process and no sweep, if the calls of the sources
\* and sinks do, with an answer or an error. (The README of the repository says that
\* the jobs of the demo stay pending; DemoArqPool runs them as tasks.) Nothing in the code sees to that:
\* their requests have timeouts, but Trino's count follows nextUri for as long as
\* there is one, and the demo has no job_timeout.
CallsEnd == \A i \in Ids : WF_vars(Resume(i))
EveryJobEnds ==
  CallsEnd => \A i \in Ids : (i \in Jobs) ~> (i \in Jobs /\ db.export_jobs[i].status \in Terminal)
=============================================================================
