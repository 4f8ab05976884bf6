--------------------------- MODULE DemoPoolProofs ---------------------------
(***************************************************************************)
(* Demo mode answers as the database, and retries repeat, for any callers, *)
(* submissions, ids, pages and bounds.                                     *)
(*                                                                         *)
(* The invariant of the first part, Tables, says what rows are: functions  *)
(* on their columns, with their ids, made at different times. From it      *)
(* follows that each statement is alike in the dictionaries and in the     *)
(* database, from that that each handler is the same, and so every         *)
(* request; the statements leave tables again.                             *)
(*                                                                         *)
(* The second part rests on the first one's invariant and on Repeating:    *)
(* no statement but the INSERT changes a setting, and filling in the       *)
(* places of the assets again changes nothing.                             *)
(***************************************************************************)
EXTENDS DemoPool, FiniteSetTheorems, FunctionTheorems, Functions, SequenceTheorems, TLAPS

-----------------------------------------------------------------------------
\* The operators, and the tables as the invariant has them.

\* The columns of a row laid over another, and what is in them (asyncpg rows and dictionaries alike).
LEMMA OverIs ==
  ASSUME NEW f, NEW g
  PROVE  /\ DOMAIN Over(f, g) = DOMAIN f \cup DOMAIN g
         /\ \A c \in DOMAIN f : Over(f, g)[c] = f[c]
         /\ \A c \in DOMAIN g \ DOMAIN f : Over(f, g)[c] = g[c]
  BY DEF Over

\* The instances count as this module does.
LEMMA SameCardinality == \A S : Sql!Cardinality(S) = Cardinality(S)
  BY DEF Cardinality, Sql!Cardinality

\* The operators that the handlers over the dictionaries, those over the database and SQL share are the
\* same in the three instances.
LEMMA SameOperators ==
  /\ NoRow = Demo!NoRow /\ NoRow = Database!NoRow /\ NoRow = Sql!NoRow
  /\ \A f, g : Over(f, g) = Demo!Over(f, g) /\ Over(f, g) = Database!Over(f, g) /\ Over(f, g) = Sql!Over(f, g)
  /\ \A d, r : Answer(d, r) = Demo!Answer(d, r) /\ Answer(d, r) = Database!Answer(d, r) /\ Answer(d, r) = Sql!Answer(d, r)
  /\ \A d, s : Demo!Status(d, s) = Answer(d, [code |-> s]) /\ Database!Status(d, s) = Answer(d, [code |-> s])
  /\ \A r : Database!Response(r) = Demo!Response(r)
  /\ \A f, a : Bound(f, a) = Sql!Bound(f, a)
  BY DEF NoRow, Demo!NoRow, Database!NoRow, Sql!NoRow, Over, Demo!Over, Database!Over, Sql!Over,
         Answer, Demo!Answer, Database!Answer, Sql!Answer, Demo!Status, Database!Status,
         Demo!Response, Database!Response, Demo!Absent, Database!Absent, Bound, Sql!Bound

\* Both kinds of handler send the same INSERTs (insert_export_job, insert_connection).
LEMMA SameStatements ==
  /\ Demo!InsertJob = InsertJob /\ Database!InsertJob = InsertJob
  /\ Demo!InsertConnection = InsertConnection /\ Database!InsertConnection = InsertConnection
  BY DEF InsertJob, Demo!InsertJob, Database!InsertJob, Blank, Demo!Blank, Database!Blank, JobColumns, Demo!JobColumns, Database!JobColumns,
   InsertConnection, Demo!InsertConnection, Database!InsertConnection, On, Demo!On, Database!On

\* The columns of the rows in the demo's two dictionaries.
JobKeys ==
  {"id", "org_id", "user_id", "datasource_ref", "datasink_name", "destination_dataset", "asset_resolution",
   "asset_datasink_name", "asset_dataset", "webhook_url", "status", "records_total", "records_processed",
   "error_message", "created_at", "started_at", "completed_at", "last_heartbeat_at", "external_dataset_id"}
ConnectionKeys ==
  {"id", "owner_key", "label", "credentials_enc", "status", "last_tested_at", "created_at"}

\* A dictionary of rows with some columns, the ids in it given, its rows made at different times before now.
Rows(rows, columns, issued, now) ==
  /\ rows = [i \in DOMAIN rows |-> rows[i]]
  /\ DOMAIN rows \subseteq 1..issued
  /\ \A i \in DOMAIN rows :
       /\ rows[i] = [c \in columns |-> rows[i][c]]
       /\ rows[i]["id"] = i
       /\ rows[i]["created_at"] \in Nat /\ rows[i]["created_at"] < now
  /\ \A i, k \in DOMAIN rows : i # k => rows[i]["created_at"] # rows[k]["created_at"]

\* What the dictionaries are in every state: the invariant that AnswersAsSql rests on.
Tables(t) ==
  /\ t = [export_jobs |-> t.export_jobs, connections |-> t.connections, sync_jobs |-> <<>>,
          issued |-> t.issued, now |-> t.now]
  /\ t.issued \in Nat /\ t.now \in Nat
  /\ Rows(t.export_jobs, JobKeys, t.issued, t.now)
  /\ Rows(t.connections, ConnectionKeys, t.issued, t.now)

\* A row of export_jobs, or none, and all of them, as the database has them.
Lift(row) == IF row = NoRow THEN NoRow ELSE Demo!Response(row)
ShownRows(rows) == [i \in DOMAIN rows |-> Demo!Response(rows[i])]

\* A row of a table has its columns, so it is not the None of a query that finds nothing.
LEMMA RowIs ==
  ASSUME NEW rows, NEW columns, NEW n, NEW w, Rows(rows, columns, n, w), NEW i \in DOMAIN rows, "id" \in columns
  PROVE  DOMAIN rows[i] = columns /\ rows[i] # NoRow
<1>1. DOMAIN rows[i] = columns
  BY DEF Rows
<1>2. "id" \notin DOMAIN NoRow
  BY DEF NoRow
<1>3. QED
  BY <1>1, <1>2

\* _row_to_response only adds the column that a row of the demo does not have, and twice is as once.
LEMMA ResponseIs ==
  ASSUME NEW row
  PROVE  /\ Demo!Response(row) = Over(row, Demo!Absent)
         /\ DOMAIN Demo!Response(row) = DOMAIN row \cup {"field_extraction"}
         /\ Demo!Response(row) = [c \in DOMAIN Demo!Response(row) |-> Demo!Response(row)[c]]
         /\ \A c \in DOMAIN row : Demo!Response(row)[c] = row[c]
         /\ Demo!Response(Demo!Response(row)) = Demo!Response(row)
<1>1. DOMAIN Demo!Absent = {"field_extraction"}
  BY DEF Demo!Absent
<1>2. QED
  BY <1>1 DEF Demo!Response, Demo!Over, Over

\* The tables as the database has them: the rows of connections are the same, those of export_jobs have
\* a column more.
LEMMA ShownIs ==
  ASSUME NEW t, Tables(t)
  PROVE  /\ Shown(t) = [export_jobs |-> ShownRows(t.export_jobs), connections |-> t.connections, sync_jobs |-> <<>>,
                        issued |-> t.issued, now |-> t.now]
         /\ DOMAIN ShownRows(t.export_jobs) = DOMAIN t.export_jobs
         /\ \A i \in DOMAIN t.export_jobs :
              /\ ShownRows(t.export_jobs)[i] = Demo!Response(t.export_jobs[i])
              /\ \A c \in JobKeys : ShownRows(t.export_jobs)[i][c] = t.export_jobs[i][c]
<1>1. Shown(t) = [export_jobs |-> ShownRows(t.export_jobs), connections |-> t.connections, sync_jobs |-> <<>>,
                        issued |-> t.issued, now |-> t.now]
   BY DEF Tables, Shown, ShownRows
<1>2. \A i \in DOMAIN t.export_jobs : DOMAIN t.export_jobs[i] = JobKeys
  BY RowIs DEF Tables, JobKeys
<1>3. QED
  BY <1>1, <1>2, ResponseIs DEF ShownRows

\* Every statement is worded as the method that is meant for it wants it (_dispatch).
LEMMA Dispatched ==
  \A t, args :
    /\ Dispatch(t, InsertJob, args) = JobInsert(t, args)
    /\ Dispatch(t, InsertConnection, args) = ConnInsert(t, args)
    /\ Dispatch(t, ById("export_jobs"), args) = JobSelect(t, ById("export_jobs"), args)
    /\ Dispatch(t, ById("connections"), args) = ConnSelect(t, ById("connections"), args)
    /\ Dispatch(t, StatusOf, args) = JobSelect(t, StatusOf, args)
    /\ Dispatch(t, OwnConnection, args) = ConnSelect(t, OwnConnection, args)
    /\ Dispatch(t, OwnConnections, args) = ConnSelect(t, OwnConnections, args)
    /\ Dispatch(t, CountReferencing, args) = Answer(t, 0)
    /\ \A set, n : Dispatch(t, UpdateJob(set, n), args) = JobUpdate(t, UpdateJob(set, n), args)
    /\ Dispatch(t, CancelActive, args) = JobUpdate(t, CancelActive, args)
    /\ \A status \in DOMAIN Equals : \A column :
         Dispatch(t, Expire(status, column), args) = JobUpdate(t, Expire(status, column), args)
    /\ Dispatch(t, CountActive, args) = JobSelect(t, CountActive, args)
    /\ \A where : Dispatch(t, ListJobs(where), args) = JobSelect(t, ListJobs(where), args)
    /\ \A where : Dispatch(t, CountJobs(where), args) = JobSelect(t, CountJobs(where), args)
    /\ \A set, put : DOMAIN put \subseteq DOMAIN Resets =>
         Dispatch(t, UpdateConnection(set, put), args) = ConnUpdate(t, UpdateConnection(set, put), args)
    /\ Dispatch(t, SetTested, args) = ConnUpdate(t, SetTested, args)
    /\ Dispatch(t, DeleteConnection, args) = ConnDelete(t, args)
<1> TAKE t, args
<1>1. Dispatch(t, InsertJob, args) = JobInsert(t, args)
  <2>1. InsertJob.text = {"insert_into_export_jobs", "returning_*"}
    BY DEF InsertJob, Blank
  <2>2. QED
    BY <2>1 DEF Dispatch
<1>2. Dispatch(t, InsertConnection, args) = ConnInsert(t, args)
  <2>1. InsertConnection.text = {"insert_into_connections", "returning_*"}
    BY DEF InsertConnection, On, Blank
  <2>2. QED
    BY <2>1 DEF Dispatch
<1>3. Dispatch(t, ById("export_jobs"), args) = JobSelect(t, ById("export_jobs"), args)
  <2>1. ById("export_jobs").text = {"from_export_jobs", "where_id_=_$1"}
    BY DEF ById, On, Blank, From
  <2>2. QED
    BY <2>1 DEF Dispatch
<1>4. Dispatch(t, ById("connections"), args) = ConnSelect(t, ById("connections"), args)
  <2>1. ById("connections").text = {"from_connections", "where_id_=_$1"}
    BY DEF ById, On, Blank, From
  <2>2. QED
    BY <2>1 DEF Dispatch
<1>5. Dispatch(t, StatusOf, args) = JobSelect(t, StatusOf, args)
  <2>1. StatusOf.text = {"from_export_jobs", "select_status_from_export_jobs", "where_id_=_$1"}
    BY DEF StatusOf, ById, On, Blank
  <2>2. QED
    BY <2>1 DEF Dispatch
<1>6. Dispatch(t, OwnConnection, args) = ConnSelect(t, OwnConnection, args)
  <2>1. OwnConnection.text = {"from_connections", "where_id_=_$1", "where_id_=_$1_and_owner_key_=_$2"}
    BY DEF OwnConnection, On, Blank
  <2>2. QED
    BY <2>1 DEF Dispatch
<1>7. Dispatch(t, OwnConnections, args) = ConnSelect(t, OwnConnections, args)
  <2>1. OwnConnections.text = {"from_connections", "where_owner_key_=_$1"}
    BY DEF OwnConnections, On, Blank
  <2>2. QED
    BY <2>1 DEF Dispatch
<1>8. Dispatch(t, CountReferencing, args) = Answer(t, 0)
  <2>1. CountReferencing.text = {"from_sync_jobs", "count(*)"}
    BY DEF CountReferencing, On, Blank
  <2>2. QED
    BY <2>1 DEF Dispatch
<1>9. ASSUME NEW set, NEW n PROVE Dispatch(t, UpdateJob(set, n), args) = JobUpdate(t, UpdateJob(set, n), args)
  <2>1. UpdateJob(set, n).text = {"update_export_jobs", "where_id=$"}
    BY DEF UpdateJob, Blank
  <2>2. QED
    BY <2>1 DEF Dispatch
<1>10. Dispatch(t, CancelActive, args) = JobUpdate(t, CancelActive, args)
  <2>1. CancelActive.text = {"update_export_jobs", "where_id=$", "status='cancelled'", "status_in_('pending'_'running')"}
    BY DEF CancelActive, UpdateJob, Blank
  <2>2. QED
    BY <2>1 DEF Dispatch
<1>11. ASSUME NEW status \in DOMAIN Equals, NEW column
       PROVE  Dispatch(t, Expire(status, column), args) = JobUpdate(t, Expire(status, column), args)
  <2>1. Expire(status, column).text = {"update_export_jobs", "status='failed'", "org_id=$1", Equals[status]}
    BY DEF Expire, Blank
  <2>2. Equals[status] \in {"status_=_'running'", "status_=_'pending'"}
    BY DEF Equals
  <2>3. QED
    BY <2>1, <2>2 DEF Dispatch
<1>12. Dispatch(t, CountActive, args) = JobSelect(t, CountActive, args)
  <2>1. CountActive.text = {"from_export_jobs", "count(*)", "status_in_('pending'_'running')"}
    BY DEF CountActive, Blank
  <2>2. QED
    BY <2>1 DEF Dispatch
<1>13. ASSUME NEW where PROVE Dispatch(t, ListJobs(where), args) = JobSelect(t, ListJobs(where), args)
  <2>1. ListJobs(where).text = {"from_export_jobs"}
    BY DEF ListJobs, Blank
  <2>2. QED
    BY <2>1 DEF Dispatch
<1>14. ASSUME NEW where PROVE Dispatch(t, CountJobs(where), args) = JobSelect(t, CountJobs(where), args)
  <2>1. CountJobs(where).text = {"from_export_jobs", "count(*)"}
    BY DEF CountJobs, Blank
  <2>2. QED
    BY <2>1 DEF Dispatch
<1>15. ASSUME NEW set, NEW put, DOMAIN put \subseteq DOMAIN Resets
       PROVE  Dispatch(t, UpdateConnection(set, put), args) = ConnUpdate(t, UpdateConnection(set, put), args)
  <2>1. UpdateConnection(set, put).text = {"update_connections", "returning_*"} \cup {Resets[c] : c \in DOMAIN put}
    BY DEF UpdateConnection, On, Blank
  <2>2. \A c \in DOMAIN put : Resets[c] \in {"status_=_'untested'", "last_tested_at_=_null"}
    BY <1>15 DEF Resets
  <2>3. QED
    BY <2>1, <2>2 DEF Dispatch
<1>16. Dispatch(t, SetTested, args) = ConnUpdate(t, SetTested, args)
  <2>1. SetTested.text = {"update_connections"}
    BY DEF SetTested, On, Blank
  <2>2. QED
    BY <2>1 DEF Dispatch
<1>17. Dispatch(t, DeleteConnection, args) = ConnDelete(t, args)
  <2>1. DeleteConnection.text = {"delete_from_connections", "from_connections", "where_id_=_$1"}
    BY DEF DeleteConnection, OwnConnection, On, Blank
  <2>2. QED
    BY <2>1 DEF Dispatch
<1>18. QED
  BY <1>1, <1>2, <1>3, <1>4, <1>5, <1>6, <1>7, <1>8, <1>9, <1>10, <1>11, <1>12, <1>13, <1>14, <1>15, <1>16, <1>17

\* The same of one statement: a PATCH that resets what it may.
LEMMA PatchDispatched ==
  ASSUME NEW t, NEW set, NEW put, NEW args, DOMAIN put \subseteq DOMAIN Resets
  PROVE  Dispatch(t, UpdateConnection(set, put), args) = ConnUpdate(t, UpdateConnection(set, put), args)
  BY Dispatched

\* An INSERT of a job answers with tables and a row.
LEMMA Inserted ==
  ASSUME NEW t, NEW data, NEW caller
  PROVE  LET i == Demo!InsertExportJob(t, data, caller) IN i = Answer(i.db, i.res)
<1>1. PICK args : Demo!InsertExportJob(t, data, caller) = Dispatch(t, InsertJob, args)
  BY SameStatements DEF Demo!InsertExportJob
<1>2. \E d, r : JobInsert(t, args) = Answer(d, r)
  BY DEF JobInsert
<1>3. Dispatch(t, InsertJob, args) = JobInsert(t, args)
  BY Dispatched
<1>4. QED
  BY <1>1, <1>2, <1>3 DEF Answer

\* get_export_job's SELECT finds the row of the id, in the dictionaries and in the database.
LEMMA ByIdIs ==
  ASSUME NEW t, Tables(t), NEW j
  PROVE  /\ Dispatch(t, ById("export_jobs"), <<j>>) = Answer(t, Get(t.export_jobs, j))
         /\ SqlExec(Shown(t), ById("export_jobs"), <<j>>) = Answer(Shown(t), Lift(Get(t.export_jobs, j)))
<1> DEFINE st == ById("export_jobs")
           row == Get(t.export_jobs, j)
<1>1. st.table = "export_jobs" /\ st.verb = "select" /\ st.what = "*" /\ st.where = [id |-> 1] /\ st.among = <<>> /\ st.before = <<>>
  BY DEF ById, On, Blank
<1>2. Dispatch(t, st, <<j>>) = JobSelect(t, st, <<j>>)
  BY Dispatched
<1>3. st.text = {"from_export_jobs", "where_id_=_$1"}
  BY DEF ById, On, Blank, From
<1> HIDE DEF st
<1>4. JobSelect(t, st, <<j>>) = Answer(t, row)
  BY <1>1, <1>3 DEF JobSelect
<1>5. Shown(t)[st.table] = ShownRows(t.export_jobs)
  BY <1>1, ShownIs
<1>6. Sql!Chosen(Shown(t), st, <<j>>) = {i \in DOMAIN t.export_jobs : i = j}
  <2>1. \A i \in DOMAIN t.export_jobs : ShownRows(t.export_jobs)[i]["id"] = i
    <3>1. \A i \in DOMAIN t.export_jobs : t.export_jobs[i]["id"] = i
      BY DEF Tables, Rows
    <3>2. "id" \in JobKeys
      BY DEF JobKeys
    <3>3. QED
      BY <3>1, <3>2, ShownIs
  <2>2. QED
    BY <1>1, <1>5, <2>1, ShownIs DEF Sql!Chosen, Sql!Satisfies
<1>7. Sql!Sql(Shown(t), st, <<j>>) = Answer(Shown(t), Sql!Only(ShownRows(t.export_jobs), {i \in DOMAIN t.export_jobs : i = j}))
  BY <1>1, <1>5, <1>6, SameOperators DEF Sql!Sql, Sql!SqlSelect
<1>8. Sql!Only(ShownRows(t.export_jobs), {i \in DOMAIN t.export_jobs : i = j}) = Lift(row)
  <2>1. CASE j \in DOMAIN t.export_jobs
    <3>1. {i \in DOMAIN t.export_jobs : i = j} = {j} /\ row = t.export_jobs[j] /\ row # NoRow
      BY <2>1, RowIs DEF Get, Tables, JobKeys
    <3>2. QED
      BY <2>1, <3>1, ShownIs DEF Sql!Only, Lift
  <2>2. CASE j \notin DOMAIN t.export_jobs
    <3>1. {i \in DOMAIN t.export_jobs : i = j} = {} /\ row = NoRow
      BY <2>2 DEF Get
    <3>2. QED
      BY <3>1, SameOperators DEF Sql!Only, Lift
  <2>3. QED
    BY <2>1, <2>2
<1>9. QED
  BY <1>2, <1>4, <1>7, <1>8 DEF SqlExec, st

-----------------------------------------------------------------------------
\* The statements on jobs that change them.

\* What a statement does with the dictionaries and with the database is the same.
Alike(t, st, args) ==
  LET demo == Dispatch(t, st, args)
      sql == SqlExec(Shown(t), st, args)
  IN  Tables(demo.db) /\ sql.db = Shown(demo.db) /\ sql.res = demo.res
\* The same for a statement that returns a row of export_jobs.
AlikeRow(t, st, args) ==
  LET demo == Dispatch(t, st, args)
      sql == SqlExec(Shown(t), st, args)
  IN  Tables(demo.db) /\ sql.db = Shown(demo.db) /\ sql.res = Lift(demo.res)
      

\* A statement with the same result, and tables that show as the database's, is alike.
LEMMA AlikeIs ==
  ASSUME NEW t, NEW st, NEW args, NEW d, NEW r, Dispatch(t, st, args) = Answer(d, r),
         SqlExec(Shown(t), st, args) = Answer(Shown(d), r), Tables(d)
  PROVE  Alike(t, st, args)
  BY DEF Alike, Answer

\* Rows, with some columns set in some of them.
Updated(rows, ids, new) == [i \in DOMAIN rows |-> IF i \in ids THEN Over(new, rows[i]) ELSE rows[i]]

\* A row of export_jobs that is updated, but for its id and time, keeps its columns, its id and its time.
LEMMA UpdatedRow ==
  ASSUME NEW row, DOMAIN row = JobKeys, row = [c \in JobKeys |-> row[c]], NEW new, DOMAIN new \subseteq JobKeys \ {"id", "created_at"}
  PROVE  /\ Over(new, row) = [c \in JobKeys |-> Over(new, row)[c]]
         /\ DOMAIN Over(new, row) = JobKeys
         /\ Over(new, row)["id"] = row["id"] /\ Over(new, row)["created_at"] = row["created_at"]
         /\ Demo!Response(Over(new, row)) = Over(new, Demo!Response(row))
<1>1. DOMAIN Over(new, row) = JobKeys /\ Over(new, row) = [c \in JobKeys |-> Over(new, row)[c]]
  BY DEF Over
<1>2. "id" \in JobKeys /\ "created_at" \in JobKeys /\ "field_extraction" \notin JobKeys
  BY DEF JobKeys
<1>3. Over(new, row)["id"] = row["id"] /\ Over(new, row)["created_at"] = row["created_at"]
  BY <1>2 DEF Over
<1>4. Demo!Response(Over(new, row)) = Over(new, Demo!Response(row))
  <2>1. DOMAIN Demo!Absent = {"field_extraction"}
    BY DEF Demo!Absent
  <2>2. QED
    BY <1>2, <2>1 DEF Demo!Response, Demo!Over, Over
<1>5. QED
  BY <1>1, <1>3, <1>4

\* After such an update of any rows the dictionaries are tables again, and show as the updated database.
LEMMA UpdatedTables ==
  ASSUME NEW t, Tables(t), NEW ids, NEW new, DOMAIN new \subseteq JobKeys \ {"id", "created_at"}
  PROVE  LET after == [t EXCEPT !.export_jobs = Updated(t.export_jobs, ids, new)]
         IN  Tables(after) /\ Shown(after) = [Shown(t) EXCEPT !.export_jobs = Updated(ShownRows(t.export_jobs), ids, new)]
<1> DEFINE e == t.export_jobs
           u == Updated(e, ids, new)
           after == [t EXCEPT !.export_jobs = u]
<1>1. \A i \in DOMAIN e : DOMAIN e[i] = JobKeys /\ e[i] = [c \in JobKeys |-> e[i][c]]
  BY DEF Tables, Rows
<1>2. \A i \in DOMAIN e :
        /\ u[i] = [c \in JobKeys |-> u[i][c]]
        /\ DOMAIN u[i] = JobKeys
        /\ u[i]["id"] = e[i]["id"] /\ u[i]["created_at"] = e[i]["created_at"]
        /\ Demo!Response(u[i]) = IF i \in ids THEN Over(new, Demo!Response(e[i])) ELSE Demo!Response(e[i])
  <2> TAKE i \in DOMAIN e
  <2>1. CASE i \in ids
    <3>1. u[i] = Over(new, e[i])
      BY <2>1 DEF Updated
    <3> HIDE DEF e, u
    <3>2. QED
      BY <1>1, <2>1, <3>1, UpdatedRow
  <2>2. CASE i \notin ids
    <3>1. u[i] = e[i]
      BY <2>2 DEF Updated
    <3> HIDE DEF e, u
    <3>2. QED
      BY <1>1, <2>2, <3>1
  <2>3. QED
    BY <2>1, <2>2
<1>3. DOMAIN u = DOMAIN e /\ u = [i \in DOMAIN u |-> u[i]]
  BY DEF Updated
<1>4. after = [export_jobs |-> u, connections |-> t.connections, sync_jobs |-> <<>>, issued |-> t.issued, now |-> t.now]
  BY DEF Tables
<1>5. Rows(e, JobKeys, t.issued, t.now)
  BY DEF Tables
<1> HIDE DEF e, u
<1>6. Rows(u, JobKeys, t.issued, t.now)
  BY <1>2, <1>3, <1>5 DEF Rows
<1>7. Tables(after)
  BY <1>4, <1>6 DEF Tables
<1>8. ShownRows(u) = Updated(ShownRows(e), ids, new)
  <2>1. \A i \in DOMAIN e : ShownRows(u)[i] = Updated(ShownRows(e), ids, new)[i]
    BY <1>2, <1>3 DEF ShownRows, Updated
  <2>2. QED
    BY <1>3, <2>1 DEF ShownRows, Updated
<1>9. Shown(after) = [Shown(t) EXCEPT !.export_jobs = Updated(ShownRows(e), ids, new)]
  <2>1. Shown(after) = [export_jobs |-> ShownRows(u), connections |-> t.connections, sync_jobs |-> <<>>, issued |-> t.issued, now |-> t.now]
    <3> HIDE DEF after
    <3>1. Shown(after) = [export_jobs |-> ShownRows(after.export_jobs), connections |-> after.connections, sync_jobs |-> <<>>,
                        issued |-> after.issued, now |-> after.now]
      BY <1>7, ShownIs
    <3>2. QED
      BY <1>4, <3>1
  <2>2. QED
    BY <1>8, <2>1, ShownIs
<1>10. QED
  BY <1>7, <1>9 DEF e, u

\* No columns laid over a row leave it as it is.
LEMMA OverNothing == ASSUME NEW row, row = [c \in DOMAIN row |-> row[c]] PROVE Over(<<>>, row) = row
  BY DEF Over

\* A row of export_jobs as the database has it: the same columns, and the field extraction.
LEMMA ShownRow ==
  ASSUME NEW t, Tables(t), NEW i \in DOMAIN t.export_jobs
  PROVE  LET r == ShownRows(t.export_jobs)[i]
         IN  /\ DOMAIN r = JobKeys \cup {"field_extraction"} /\ Over(<<>>, r) = r
             /\ \A c \in JobKeys : r[c] = t.export_jobs[i][c]
             /\ r["id"] = i
<1> DEFINE r == ShownRows(t.export_jobs)[i]
<1>1. r = Demo!Response(t.export_jobs[i]) /\ \A c \in JobKeys : r[c] = t.export_jobs[i][c]
  BY ShownIs
<1>2. DOMAIN t.export_jobs[i] = JobKeys
  BY RowIs DEF Tables, JobKeys
<1>3. t.export_jobs[i]["id"] = i
  BY DEF Tables, Rows
<1>4. "id" \in JobKeys
  BY DEF JobKeys
<1>5. r = [c \in DOMAIN r |-> r[c]] /\ DOMAIN r = JobKeys \cup {"field_extraction"}
  BY <1>1, <1>2, ResponseIs
<1> HIDE DEF r
<1>6. Over(<<>>, r) = r
  BY <1>5, OverNothing
<1>7. QED
  BY <1>1, <1>3, <1>4, <1>5, <1>6 DEF r

\* An UPDATE of export_jobs is alike when both choose the same rows and set the same columns in them.
LEMMA UpdateAlike ==
  ASSUME NEW t, Tables(t), NEW st, NEW args, NEW ids, NEW new, DOMAIN new \subseteq JobKeys \ {"id", "created_at"},
         st.table = "export_jobs", st.verb = "update", st.what # "returning",
         Dispatch(t, st, args) = Answer([t EXCEPT !.export_jobs = Updated(t.export_jobs, ids, new)], Cardinality(ids)),
         Sql!Chosen(Shown(t), st, args) = ids,
         \A i \in DOMAIN t.export_jobs :
           Sql!Assigned(st, args, ShownRows(t.export_jobs)[i]) = Over(new, ShownRows(t.export_jobs)[i])
  PROVE  Alike(t, st, args)
<1> DEFINE e == t.export_jobs
           x == [i \in DOMAIN Shown(t)[st.table] |->
                  IF i \in Sql!Chosen(Shown(t), st, args) THEN Sql!Assigned(st, args, Shown(t)[st.table][i]) ELSE Shown(t)[st.table][i]]
<1>1. Shown(t)[st.table] = ShownRows(e) /\ DOMAIN ShownRows(e) = DOMAIN e
  BY ShownIs
<1>2. Sql!SqlUpdate(Shown(t), st, args) = Sql!Answer([Shown(t) EXCEPT ![st.table] = x], Cardinality(Sql!Chosen(Shown(t), st, args)))
  BY SameCardinality DEF Sql!SqlUpdate
<1>3. x = Updated(ShownRows(e), ids, new)
  BY <1>1 DEF Updated
<1> HIDE DEF x, e
<1>4. Sql!Sql(Shown(t), st, args) = Sql!SqlUpdate(Shown(t), st, args)
  BY DEF Sql!Sql
<1>5. SqlExec(Shown(t), st, args) = Answer([Shown(t) EXCEPT !.export_jobs = Updated(ShownRows(e), ids, new)], Cardinality(ids))
  BY <1>2, <1>3, <1>4, SameOperators DEF SqlExec
<1>6. Dispatch(t, st, args) = Answer([t EXCEPT !.export_jobs = Updated(e, ids, new)], Cardinality(ids))
  BY DEF e
<1>7. /\ Tables([t EXCEPT !.export_jobs = Updated(e, ids, new)])
      /\ Shown([t EXCEPT !.export_jobs = Updated(e, ids, new)]) = [Shown(t) EXCEPT !.export_jobs = Updated(ShownRows(e), ids, new)]
  BY UpdatedTables DEF e
<1>8. QED
  BY <1>5, <1>6, <1>7, AlikeIs

\* The UPDATEs of one job by its id are alike (update_export_job_status and its kin): _job_update takes
\* from the text the same columns as SET has.
LEMMA UpdateJobAlike ==
  ASSUME NEW t, Tables(t), NEW set, DOMAIN set \subseteq JobKeys \ {"id", "created_at"},
         NEW args, Len(args) \in Nat, \A c \in DOMAIN set : set[c] <= Len(args), NEW n \in 1..Len(args)
  PROVE  Alike(t, UpdateJob(set, n), args)
<1> DEFINE st == UpdateJob(set, n)
           e == t.export_jobs
           ids == DOMAIN e \cap {args[n]}
           new == Bound(set, args)
<1>1. /\ st.table = "export_jobs" /\ st.verb = "update" /\ st.what = "*" /\ st.set = set /\ st.put = <<>> /\ st.where = [id |-> n]
      /\ st.among = <<>> /\ st.before = <<>>
  BY DEF UpdateJob, Blank
<1>0. st.text = {"update_export_jobs", "where_id=$"} /\ Dispatch(t, st, args) = JobUpdate(t, st, args)
  <2>1. st.text = {"update_export_jobs", "where_id=$"}
    BY DEF UpdateJob, Blank
  <2>2. Dispatch(t, st, args) = JobUpdate(t, st, args)
    BY Dispatched
  <2>3. QED
    BY <2>1, <2>2
<1> HIDE DEF st
<1>2. DOMAIN new \subseteq JobKeys \ {"id", "created_at"}
  BY DEF Bound
<1>3. Written(st, args, Len(args), {"id"}) = new
  <2>1. Pairs(st) = Over([id |-> n], set)
    BY <1>1 DEF Pairs
  <2>2. {c \in DOMAIN Pairs(st) \ {"id"} : Pairs(st)[c] <= Len(args)} = DOMAIN set
    BY <2>1 DEF Over
  <2>3. \A c \in DOMAIN set : Pairs(st)[c] = set[c]
    BY <2>1 DEF Over
  <2>4. QED
    BY <2>2, <2>3 DEF Written, Bound
<1>4. Dispatch(t, st, args) = Answer([t EXCEPT !.export_jobs = Updated(e, ids, new)], Cardinality(ids))
  <2>1. args[st.where["id"]] = args[n]
    BY <1>1
  <2>2. "status='cancelled'" \notin st.text /\ "status='failed'" \notin st.text /\ "where_id=$" \in st.text
    BY <1>0
  <2> HIDE DEF new
  <2>3. QED
    BY <1>0, <1>3, <2>1, <2>2, Zenon DEF JobUpdate, Updated
<1>5. Sql!Chosen(Shown(t), st, args) = ids
  <2>1. \A i \in DOMAIN e : ShownRows(e)[i]["id"] = i
    BY ShownRow
  <2>2. Shown(t)[st.table] = ShownRows(e) /\ DOMAIN ShownRows(e) = DOMAIN e
    BY <1>1, ShownIs
  <2>3. QED
    BY <1>1, <2>1, <2>2 DEF Sql!Chosen, Sql!Satisfies
<1>6. ASSUME NEW i \in DOMAIN e PROVE Sql!Assigned(st, args, ShownRows(e)[i]) = Over(new, ShownRows(e)[i])
  BY <1>1, ShownRow, SameOperators DEF Sql!Assigned
<1> HIDE DEF new, ids
<1>7. Alike(t, st, args)
  BY <1>1, <1>2, <1>4, <1>5, <1>6, UpdateAlike
<1>8. QED
  BY <1>7 DEF st

\* The dictionary's assignment of the status is SQL's.
LEMMA ExceptIsOver ==
  ASSUME NEW keys, NEW row, row = [c \in keys |-> row[c]], "status" \in keys, NEW x
  PROVE  [row EXCEPT !["status"] = x] = Over([status |-> x], row)
<1>1. DOMAIN row = keys
  OBVIOUS
<1>2. Over([status |-> x], row) = [c \in keys |-> IF c = "status" THEN x ELSE row[c]]
  BY <1>1 DEF Over
<1>3. QED
  BY <1>1, <1>2

\* cancel_export_job's UPDATE, which _job_update knows by the status it sets, is alike.
LEMMA CancelAlike ==
  ASSUME NEW t, Tables(t), NEW j
  PROVE  Alike(t, CancelActive, <<j>>)
<1> DEFINE st == CancelActive
           e == t.export_jobs
           ids == {i \in DOMAIN e \cap {j} : e[i]["status"] \in Active}
           new == [status |-> "cancelled"]
<1>1. /\ st.table = "export_jobs" /\ st.verb = "update" /\ st.what = "*" /\ st.set = <<>> /\ st.put = new /\ st.where = [id |-> 1]
      /\ st.among = [status |-> {"pending", "running"}] /\ st.before = <<>>
  BY DEF CancelActive, UpdateJob, Blank, Unfinished
<1>0. "status='cancelled'" \in st.text /\ Dispatch(t, st, <<j>>) = JobUpdate(t, st, <<j>>)
  BY Dispatched DEF CancelActive, UpdateJob, Blank
<1> HIDE DEF st
<1>2. DOMAIN new \subseteq JobKeys \ {"id", "created_at"} /\ "status" \in JobKeys
  BY DEF JobKeys
<1>3. Dispatch(t, st, <<j>>) = Answer([t EXCEPT !.export_jobs = Updated(e, ids, new)], Cardinality(ids))
  <2>2. \A i \in DOMAIN e : [e[i] EXCEPT !.status = "cancelled"] = Over(new, e[i])
    <3>1. \A i \in DOMAIN e : DOMAIN e[i] = JobKeys /\ e[i] = [c \in JobKeys |-> e[i][c]]
      BY RowIs DEF Tables, Rows, JobKeys
    <3>2. QED
      BY <1>2, <3>1, ExceptIsOver
  <2>3. <<j>>[1] = j
    OBVIOUS
  <2> DEFINE u == [i \in DOMAIN e |-> IF i \in ids THEN [e[i] EXCEPT !.status = "cancelled"] ELSE e[i]]
  <2>4. u = Updated(e, ids, new)
    BY <2>2 DEF Updated
  <2> HIDE DEF new
  <2>5. JobUpdate(t, st, <<j>>) = Answer([t EXCEPT !.export_jobs = u], Cardinality(ids))
    BY <1>0, <2>3, Zenon DEF JobUpdate
  <2>6. QED
    BY <1>0, <2>4, <2>5
<1>4. Sql!Chosen(Shown(t), st, <<j>>) = ids
  <2>1. \A i \in DOMAIN e : ShownRows(e)[i]["id"] = i /\ ShownRows(e)[i]["status"] = e[i]["status"]
    BY <1>2, ShownRow
  <2>2. Shown(t)[st.table] = ShownRows(e) /\ DOMAIN ShownRows(e) = DOMAIN e
    BY <1>1, ShownIs
  <2>3. QED
    BY <1>1, <2>1, <2>2 DEF Sql!Chosen, Sql!Satisfies, Active
<1>5. ASSUME NEW i \in DOMAIN e PROVE Sql!Assigned(st, <<j>>, ShownRows(e)[i]) = Over(new, ShownRows(e)[i])
  <2>1. Over(Bound(<<>>, <<j>>), Over(new, ShownRows(e)[i])) = Over(new, ShownRows(e)[i])
    BY DEF Over, Bound
  <2>2. QED
    BY <1>1, <2>1, SameOperators DEF Sql!Assigned
<1> HIDE DEF new, ids
<1>6. Alike(t, st, <<j>>)
  BY <1>1, <1>2, <1>3, <1>4, <1>5, UpdateAlike
<1>7. QED
  BY <1>6 DEF st

-----------------------------------------------------------------------------
\* The expiries, counts and lists of jobs.

\* The condition written for the expiries in _job_update is their WHERE clause.
LEMMA ExpiresIs ==
  ASSUME NEW st, NEW org, NEW cutoff, NEW status, NEW column, NEW r,
         st.among = [status |-> {status}], st.where = [org_id |-> 1], st.before = [c \in {column} |-> 2],
         st.text = {"update_export_jobs", "status='failed'", "org_id=$1", Equals[status]},
         \/ status = "running" /\ column = "last_heartbeat_at"
         \/ status = "pending" /\ column = "created_at" /\ r["created_at"] # NULL
  PROVE  Expires(st, <<org, cutoff>>, r) <=> Sql!Satisfies(st, <<org, cutoff>>, r)
<1> DEFINE args == <<org, cutoff>>
           old == r[column] = NULL \/ r[column] < cutoff
<1>1. args[1] = org /\ args[2] = cutoff
  OBVIOUS
<1>0. Equals["running"] = "status_=_'running'" /\ Equals["pending"] = "status_=_'pending'"
  BY DEF Equals
<1>2. st.among["status"] = {status} /\ DOMAIN st.among = {"status"}
  OBVIOUS
<1>3. DOMAIN st.before = {column} /\ st.before[column] = 2
  OBVIOUS
<1>4. DOMAIN st.where = {"org_id"} /\ st.where["org_id"] = 1
  OBVIOUS
<1> HIDE DEF args
<1>5. Sql!Satisfies(st, args, r) <=> r["org_id"] = org /\ r["status"] = status /\ old
  BY <1>1, <1>2, <1>3, <1>4 DEF Sql!Satisfies
<1>6. Expires(st, args, r) <=> r["org_id"] = org /\ r["status"] = status /\ old
  <2>1. CASE status = "running" /\ column = "last_heartbeat_at"
    BY <1>0, <1>1, <2>1 DEF Expires
  <2>2. CASE status = "pending" /\ column = "created_at" /\ r["created_at"] # NULL
    BY <1>0, <1>1, <2>2 DEF Expires
  <2>3. QED
    BY <2>1, <2>2
<1>7. QED
  BY <1>5, <1>6 DEF args

\* The two expiries of count_active_jobs_for_org are alike.
LEMMA ExpireAlike ==
  ASSUME NEW t, Tables(t), NEW org, NEW cutoff, NEW status, NEW column,
         <<status, column>> \in {<<"running", "last_heartbeat_at">>, <<"pending", "created_at">>}
  PROVE  Alike(t, Expire(status, column), <<org, cutoff>>)
<1> DEFINE st == Expire(status, column)
           args == <<org, cutoff>>
           e == t.export_jobs
           ids == {i \in DOMAIN e : Expires(st, args, e[i])}
           new == [status |-> "failed", error_message |-> "job_timed_out"]
<1>1. st.table = "export_jobs" /\ st.verb = "update" /\ st.what = "*" /\ st.set = <<>>
  BY DEF Expire, Blank
<1>2. st.put = new /\ st.where = [org_id |-> 1] /\ st.among = [status |-> {status}] /\ st.before = [c \in {column} |-> 2]
  BY DEF Expire, Blank
<1>0. st.text = {"update_export_jobs", "status='failed'", "org_id=$1", Equals[status]} /\ Dispatch(t, st, args) = JobUpdate(t, st, args)
  <2>1. status \in DOMAIN Equals
    BY DEF Equals
  <2>2. st.text = {"update_export_jobs", "status='failed'", "org_id=$1", Equals[status]}
    BY DEF Expire, Blank
  <2>3. Dispatch(t, st, args) = JobUpdate(t, st, args)
    BY <2>1, Dispatched
  <2>4. QED
    BY <2>2, <2>3
<1>9. "status='failed'" \in st.text /\ "status='cancelled'" \notin st.text
  <2>1. Equals[status] \in {"status_=_'running'", "status_=_'pending'"}
    BY DEF Equals
  <2> HIDE DEF st, args
  <2>2. QED
    BY <1>0, <2>1
<1> HIDE DEF st
<1>3. DOMAIN new \subseteq JobKeys \ {"id", "created_at"}
  BY DEF JobKeys
<1>4. Dispatch(t, st, args) = Answer([t EXCEPT !.export_jobs = Updated(e, ids, new)], Cardinality(ids))
  <2>1. TimedOut = new
    BY DEF TimedOut
  <2> HIDE DEF new, args
  <2>2. QED
    BY <1>0, <1>9, <2>1, Zenon DEF JobUpdate, Updated
<1>5. Sql!Chosen(Shown(t), st, args) = ids
  <2>1. Shown(t)[st.table] = ShownRows(e) /\ DOMAIN ShownRows(e) = DOMAIN e
    BY <1>1, ShownIs
  <2>2. ASSUME NEW i \in DOMAIN e
        PROVE  Expires(st, args, e[i]) <=> Sql!Satisfies(st, args, ShownRows(e)[i])
    <3> DEFINE r == ShownRows(e)[i]
    <3>1. {"org_id", "status", "last_heartbeat_at", "created_at"} \subseteq JobKeys
      BY DEF JobKeys
    <3>2. \A c \in {"org_id", "status", "last_heartbeat_at", "created_at"} : r[c] = e[i][c]
      BY <3>1, ShownRow
    <3>3. e[i]["created_at"] # NULL
      BY DemoAssumption DEF Tables, Rows
    <3> HIDE DEF r, e
    <3>4. Expires(st, args, e[i]) <=> Expires(st, args, r)
      BY <3>2 DEF Expires
    <3>5. Expires(st, args, r) <=> Sql!Satisfies(st, args, r)
      BY <1>0, <1>2, <3>2, <3>3, ExpiresIs
    <3>6. QED
      BY <3>4, <3>5 DEF r
  <2>3. QED
    BY <2>1, <2>2 DEF Sql!Chosen
<1>6. ASSUME NEW i \in DOMAIN e PROVE Sql!Assigned(st, args, ShownRows(e)[i]) = Over(new, ShownRows(e)[i])
  <2> DEFINE r == ShownRows(e)[i]
  <2> HIDE DEF r, args, new
  <2>1. Over(Bound(<<>>, args), Over(new, r)) = Over(new, r)
    BY DEF Over, Bound
  <2>2. QED
    BY <1>1, <1>2, <2>1, SameOperators DEF Sql!Assigned, r
<1> HIDE DEF new, ids, args
<1>7. Alike(t, st, args)
  <2>1. st.what # "returning"
    BY <1>1
  <2>2. QED
    BY <1>1, <1>3, <1>4, <1>5, <1>6, <2>1, UpdateAlike
<1>8. QED
  BY <1>7 DEF st, args

\* The rows that _apply_job_filters leaves are those that the WHERE clause chooses.
LEMMA FilteredIs ==
  ASSUME NEW t, Tables(t), NEW st, NEW args, NEW last, st.table = "export_jobs", st.set = <<>>, st.before = <<>>,
         st.among = (IF "status_in_('pending'_'running')" \in st.text THEN Unfinished ELSE <<>>),
         DOMAIN st.where \subseteq JobKeys, \A c \in DOMAIN st.where : st.where[c] <= last
  PROVE  Sql!Chosen(Shown(t), st, args) = Filtered(t.export_jobs, st, args, last)
<1> DEFINE e == t.export_jobs
<1>1. Shown(t)[st.table] = ShownRows(e) /\ DOMAIN ShownRows(e) = DOMAIN e
  BY ShownIs
<1>2. \A i \in DOMAIN e : \A c \in JobKeys : ShownRows(e)[i][c] = e[i][c]
  BY ShownRow
<1>3. Written(st, args, last, {}) = [c \in DOMAIN st.where |-> args[st.where[c]]]
  <2>1. Pairs(st) = Over(st.where, <<>>) /\ DOMAIN Pairs(st) = DOMAIN st.where /\ \A c \in DOMAIN st.where : Pairs(st)[c] = st.where[c]
    BY DEF Pairs, Over
  <2>2. {c \in DOMAIN Pairs(st) \ {} : Pairs(st)[c] <= last} = DOMAIN st.where
    BY <2>1
  <2>3. QED
    BY <2>1, <2>2 DEF Written
<1>4. "status" \in JobKeys
  BY DEF JobKeys
<1> DEFINE unfinished(r) == "status_in_('pending'_'running')" \in st.text => r["status"] \in Active
<1>5. ASSUME NEW i \in DOMAIN e
      PROVE  Sql!Satisfies(st, args, ShownRows(e)[i]) <=> (\A c \in DOMAIN st.where : e[i][c] = args[st.where[c]]) /\ unfinished(e[i])
  <2> DEFINE r == ShownRows(e)[i]
  <2>1. \A c \in JobKeys : r[c] = e[i][c]
    BY <1>2
  <2> HIDE DEF r
  <2>2. Sql!Satisfies(st, args, r) <=> (\A c \in DOMAIN st.where : r[c] = args[st.where[c]]) /\ \A c \in DOMAIN st.among : r[c] \in st.among[c]
    BY DEF Sql!Satisfies
  <2>3. (\A c \in DOMAIN st.among : r[c] \in st.among[c]) <=> unfinished(r)
    BY DEF Unfinished, Active
  <2>4. r["status"] = e[i]["status"]
    BY <1>4, <2>1
  <2>5. QED
    BY <2>1, <2>2, <2>3, <2>4 DEF r
<1> HIDE DEF e
<1>6. QED
  BY <1>1, <1>3, <1>5 DEF Sql!Chosen, Filtered, e

\* Ids with different times can be put in their order: the one with n - 1 newer ones exists
\* for each n, because the numbers of newer ones are all different.
LEMMA NewestIs ==
  ASSUME NEW ids, IsFiniteSet(ids), NEW created, \A i \in ids : created[i] \in Nat,
         \A i, k \in ids : i # k => created[i] # created[k]
  PROVE  Cardinality(ids) \in Nat /\ Newest(ids, created) \in [1..Cardinality(ids) -> ids]
<1> DEFINE newer(i) == {k \in ids : created[k] > created[i]}
           N == Cardinality(ids)
           place == [i \in ids |-> Cardinality(newer(i)) + 1]
<1>1. N \in Nat
  BY FS_CardinalityType
<1>2. ASSUME NEW i \in ids
      PROVE  IsFiniteSet(newer(i)) /\ Cardinality(newer(i)) \in Nat /\ Cardinality(newer(i)) < N
  <2>1. newer(i) \in SUBSET ids /\ i \notin newer(i)
    BY DEF newer
  <2>2. IsFiniteSet(newer(i)) /\ Cardinality(newer(i)) <= N /\ (Cardinality(newer(i)) = N => newer(i) = ids)
    BY <2>1, FS_Subset
  <2>3. QED
    BY <1>1, <2>1, <2>2, FS_CardinalityType
<1>3. ASSUME NEW i \in ids, NEW k \in ids, created[i] < created[k]
      PROVE  place[k] < place[i]
  <2>1. newer(k) \in SUBSET newer(i) /\ k \in newer(i) /\ k \notin newer(k)
    BY <1>3 DEF newer
  <2>2. Cardinality(newer(k)) <= Cardinality(newer(i)) /\ Cardinality(newer(k)) # Cardinality(newer(i))
    BY <1>2, <2>1, FS_Subset
  <2> HIDE DEF newer
  <2>3. QED
    BY <1>2, <2>2
<1>4. place \in [ids -> 1..N]
  <2>1. \A i \in ids : Cardinality(newer(i)) + 1 \in 1..N
    <3> HIDE DEF newer, N
    <3>1. QED
      BY <1>1, <1>2
  <2>2. QED
    BY <2>1
<1> HIDE DEF place
<1>5. \A i, k \in ids : i # k => place[i] # place[k]
  <2> SUFFICES ASSUME NEW i \in ids, NEW k \in ids, i # k PROVE place[i] # place[k]
    OBVIOUS
  <2>1. created[i] < created[k] \/ created[k] < created[i]
    OBVIOUS
  <2>2. place[i] < place[k] \/ place[k] < place[i]
    BY <1>3, <2>1
  <2>3. place[i] \in Nat /\ place[k] \in Nat
    BY <1>1, <1>4
  <2>4. QED
    BY <2>2, <2>3
<1>6. place \in Surjection(ids, 1..N)
  <2>1. place \in Injection(ids, 1..N)
    BY <1>4, <1>5 DEF Injection, IsInjective
  <2>2. IsFiniteSet(1..N) /\ Cardinality(1..N) = N
    BY <1>1, FS_Interval
  <2>3. QED
    BY <2>1, <2>2, FS_Injection
<1>7. ASSUME NEW n \in 1..N PROVE (CHOOSE k \in ids : Cardinality(newer(k)) = n - 1) \in ids
  <2>1. PICK i \in ids : place[i] = n
    BY <1>6 DEF Surjection
  <2>2. Cardinality(newer(i)) = n - 1
    <3>1. Cardinality(newer(i)) + 1 = n
      BY <2>1 DEF place
    <3> HIDE DEF newer
    <3>2. QED
      BY <1>1, <1>2, <3>1
  <2> HIDE DEF newer
  <2>3. QED
    BY <2>2
<1>8. Newest(ids, created) = [n \in 1..N |-> CHOOSE k \in ids : Cardinality(newer(k)) = n - 1]
  BY DEF Newest
<1> HIDE DEF newer
<1>9. QED
  BY <1>1, <1>7, <1>8

\* Rows have ids that have been given, so there are finitely many.
LEMMA RowsFinite ==
  ASSUME NEW rows, NEW columns, NEW n \in Nat, NEW w, Rows(rows, columns, n, w), NEW ids \in SUBSET DOMAIN rows
  PROVE  IsFiniteSet(ids)
<1>1. DOMAIN rows \in SUBSET (1..n)
  BY DEF Rows
<1>2. IsFiniteSet(1..n)
  BY FS_Interval
<1>3. QED
  BY <1>1, <1>2, FS_Subset

\* is_job_cancelled's SELECT of the status is alike.
LEMMA StatusAlike ==
  ASSUME NEW t, Tables(t), NEW j
  PROVE  Alike(t, StatusOf, <<j>>)
<1> DEFINE st == StatusOf
           e == t.export_jobs
           res == IF j \in DOMAIN e THEN e[j]["status"] ELSE NULL
<1>1. st.table = "export_jobs" /\ st.verb = "select" /\ st.what = "status" /\ st.where = [id |-> 1] /\ st.among = <<>> /\ st.before = <<>>
  BY DEF StatusOf, ById, On, Blank
<1>0. "select_status_from_export_jobs" \in st.text /\ Dispatch(t, st, <<j>>) = JobSelect(t, st, <<j>>)
  BY Dispatched DEF StatusOf, ById, On, Blank
<1> HIDE DEF st
<1>2. Dispatch(t, st, <<j>>) = Answer(t, res)
  <2>2. JobSelect(t, st, <<j>>) = Answer(t, IF Get(e, j) = NoRow THEN NULL ELSE Get(e, j)["status"])
    BY <1>0, <1>1 DEF JobSelect
  <2>3. j \in DOMAIN e => e[j] # NoRow
    BY RowIs DEF Tables, JobKeys
  <2>4. QED
    BY <1>0, <2>2, <2>3 DEF Get
<1>3. SqlExec(Shown(t), st, <<j>>) = Answer(Shown(t), res)
  <2> DEFINE ids == {i \in DOMAIN e : i = j}
  <2>1. Shown(t)[st.table] = ShownRows(e) /\ DOMAIN ShownRows(e) = DOMAIN e
    BY <1>1, ShownIs
  <2>2. \A i \in DOMAIN e : ShownRows(e)[i]["id"] = i
    BY ShownRow
  <2>3. Sql!Chosen(Shown(t), st, <<j>>) = ids
    BY <1>1, <2>1, <2>2 DEF Sql!Chosen, Sql!Satisfies
  <2>4. Sql!Sql(Shown(t), st, <<j>>) = Sql!SqlSelect(Shown(t), st, <<j>>)
    BY <1>1 DEF Sql!Sql
  <2>5. Sql!SqlSelect(Shown(t), st, <<j>>) = Answer(Shown(t), IF ids = {} THEN NULL ELSE Sql!Only(ShownRows(e), ids).status)
    BY <1>1, <2>1, <2>3, SameOperators DEF Sql!SqlSelect
  <2>6. (IF ids = {} THEN NULL ELSE Sql!Only(ShownRows(e), ids).status) = res
    <3>1. CASE j \in DOMAIN e
      <4>1. ids = {j}
        BY <3>1
      <4>2. ShownRows(e)[j]["status"] = e[j]["status"]
        BY <3>1, ShownRow DEF JobKeys
      <4>3. QED
        BY <3>1, <4>1, <4>2 DEF Sql!Only
    <3>2. CASE j \notin DOMAIN e
      BY <3>2
    <3>3. QED
      BY <3>1, <3>2
  <2>7. QED
    BY <2>4, <2>5, <2>6 DEF SqlExec
<1>4. QED
  BY <1>2, <1>3, AlikeIs DEF st

\* The counts of jobs are alike: those of the active ones, and the total of a list.
LEMMA CountAlike ==
  ASSUME NEW t, Tables(t), NEW st, NEW args, Len(args) \in Nat,
         st.table = "export_jobs", st.verb = "select", st.what = "count", st.set = <<>>, st.before = <<>>,
         "count(*)" \in st.text, "select_status_from_export_jobs" \notin st.text,
         Dispatch(t, st, args) = JobSelect(t, st, args),
         st.among = (IF "status_in_('pending'_'running')" \in st.text THEN Unfinished ELSE <<>>),
         DOMAIN st.where \subseteq JobKeys, \A c \in DOMAIN st.where : st.where[c] <= Len(args)
  PROVE  Alike(t, st, args)
<1> DEFINE ids == Filtered(t.export_jobs, st, args, Len(args))
<1>1. Sql!Chosen(Shown(t), st, args) = ids
  BY FilteredIs
<1> HIDE DEF ids
<1>2. SqlExec(Shown(t), st, args) = Answer(Shown(t), Cardinality(ids))
  BY <1>1, SameOperators, SameCardinality DEF SqlExec, Sql!Sql, Sql!SqlSelect
<1>3. Dispatch(t, st, args) = Answer(t, Cardinality(ids))
  BY DEF JobSelect, ids
<1>4. QED
  BY <1>2, <1>3, AlikeIs

\* A page has members of what it is a page of.
LEMMA WindowIs ==
  ASSUME NEW S, NEW N \in Nat, NEW s \in [1..N -> S], NEW limit \in Nat, NEW offset \in Nat
  PROVE  \A n \in DOMAIN Window(s, limit, offset) : Window(s, limit, offset)[n] \in S
<1>1. Len(s) = N
  OBVIOUS
<1>2. SUFFICES ASSUME NEW n \in 1..(IF offset + limit < N THEN limit ELSE N - offset)
      PROVE  s[offset + n] \in S
  BY <1>1 DEF Window
<1>3. offset + n \in 1..N
  <2>1. CASE offset + limit < N
    BY <2>1
  <2>2. CASE ~(offset + limit < N)
    BY <2>2
  <2>3. QED
    BY <2>1, <2>2
<1>4. QED
  BY <1>3

\* A page of the jobs is the same, but for the columns that the dictionaries do not have (_job_list).
LEMMA ListAlike ==
  ASSUME NEW t, Tables(t), NEW where, DOMAIN where \subseteq JobKeys \ {"id"},
         NEW args, NEW n \in Nat, Len(args) = n, args[n - 1] \in Nat, args[n] \in Nat,
         \A c \in DOMAIN where : where[c] <= n - 2
  PROVE  LET demo == Dispatch(t, ListJobs(where), args)
             sql == SqlExec(Shown(t), ListJobs(where), args)
         IN  /\ DOMAIN sql.res = DOMAIN demo.res
             /\ \A k \in DOMAIN demo.res : sql.res[k] = Demo!Response(demo.res[k])
<1> DEFINE st == ListJobs(where)
           e == t.export_jobs
           ids == Filtered(e, st, args, n - 2)
           order == Newest(ids, Created(e, ids))
           shown == Window(order, args[n - 1], args[n])
<1>1. /\ st.table = "export_jobs" /\ st.verb = "select" /\ st.what = "list" /\ st.where = where /\ st.set = <<>>
      /\ st.among = <<>> /\ st.before = <<>>
  BY DEF ListJobs, Blank
<1>2. st.paged
  BY DEF ListJobs, Blank
<1>0. st.text = {"from_export_jobs"} /\ Dispatch(t, st, args) = JobSelect(t, st, args)
  <2>1. st.text = {"from_export_jobs"}
    BY DEF ListJobs, Blank
  <2>2. Dispatch(t, st, args) = JobSelect(t, st, args)
    BY Dispatched
  <2>3. QED
    BY <2>1, <2>2
<1> HIDE DEF st
<1>3. ids \in SUBSET DOMAIN e
  BY DEF Filtered
<1>4. Dispatch(t, st, args).res = RowsOf(e, shown)
  <2>2. JobSelect(t, st, args) = Answer(t, Listed(e, st, args))
    BY <1>0, <1>1 DEF JobSelect
  <2>4. Listed(e, st, args) = RowsOf(e, shown)
    BY DEF Listed, InOrder
  <2>5. QED
    BY <1>0, <2>2, <2>4 DEF Answer
<1>5. Created(ShownRows(e), ids) = Created(e, ids)
  <2>1. \A i \in DOMAIN e : ShownRows(e)[i]["created_at"] = e[i]["created_at"]
    BY ShownRow DEF JobKeys
  <2>2. QED
    BY <1>3, <2>1 DEF Created
<1>6. Sql!Chosen(Shown(t), st, args) = ids
  BY <1>0, <1>1, FilteredIs
<1>7. SqlExec(Shown(t), st, args).res = RowsOf(ShownRows(e), shown)
  <2>1. Shown(t)[st.table] = ShownRows(e)
    BY <1>1, ShownIs
  <2>2. \A i, c : Sql!Newest(i, c) = Newest(i, c)
    BY Zenon DEF Sql!Newest, Newest, Cardinality, Sql!Cardinality
  <2>3. \A r, i : Sql!Created(r, i) = Created(r, i) /\ Sql!RowsOf(r, i) = RowsOf(r, i)
    BY DEF Sql!Created, Created, Sql!RowsOf, RowsOf
  <2>4. \A s, l, o : Sql!Window(s, l, o) = Window(s, l, o)
    BY DEF Sql!Window, Window
  <2>5. Sql!Sql(Shown(t), st, args) = Sql!SqlSelect(Shown(t), st, args)
    BY <1>1 DEF Sql!Sql
  <2>6. Sql!SqlSelect(Shown(t), st, args).res =
          RowsOf(ShownRows(e), Window(Newest(ids, Created(ShownRows(e), ids)), args[n - 1], args[n]))
    <3> HIDE DEF ids
    <3>1. QED
      BY <1>1, <1>2, <1>6, <2>1, <2>2, <2>3, <2>4, SameOperators DEF Sql!SqlSelect, Answer
  <2>7. QED
    BY <1>5, <2>5, <2>6 DEF SqlExec
<1>8. \A k \in DOMAIN shown : shown[k] \in DOMAIN e
  <2>1. Rows(e, JobKeys, t.issued, t.now) /\ t.issued \in Nat
    BY DEF Tables
  <2>2. IsFiniteSet(ids)
    BY <1>3, <2>1, RowsFinite
  <2>3. DOMAIN Created(e, ids) = ids /\ \A i \in ids : Created(e, ids)[i] = e[i]["created_at"]
    BY DEF Created
  <2> HIDE DEF ids, e
  <2>4. /\ \A i \in ids : Created(e, ids)[i] \in Nat
        /\ \A i, k \in ids : i # k => Created(e, ids)[i] # Created(e, ids)[k]
    BY <1>3, <2>1, <2>3 DEF Rows
  <2>5. Cardinality(ids) \in Nat /\ order \in [1..Cardinality(ids) -> ids]
    BY <2>2, <2>4, NewestIs
  <2> HIDE DEF order
  <2>6. QED
    BY <1>3, <2>5, WindowIs
<1> HIDE DEF shown, e
<1>9. DOMAIN RowsOf(e, shown) = DOMAIN shown /\ DOMAIN RowsOf(ShownRows(e), shown) = DOMAIN shown
  BY DEF RowsOf
<1>10. \A k \in DOMAIN shown : RowsOf(ShownRows(e), shown)[k] = Demo!Response(RowsOf(e, shown)[k])
  BY <1>8 DEF RowsOf, ShownRows
<1>11. QED
  BY <1>4, <1>7, <1>9, <1>10 DEF st

-----------------------------------------------------------------------------
\* The INSERT of a job.

\* Rows stay rows when ids have been given and time has passed.
LEMMA LaterRows ==
  ASSUME NEW rows, NEW columns, NEW n \in Nat, NEW w \in Nat, Rows(rows, columns, n, w), NEW m \in Nat, n <= m, NEW v \in Nat, w <= v
  PROVE  Rows(rows, columns, m, v)
  BY DEF Rows

\* Rows and one more.
More(rows, id, row) == Over([i \in {id} |-> row], rows)

\* A row with the next id, made now, is one row more.
LEMMA MoreRows ==
  ASSUME NEW rows, NEW columns, NEW n \in Nat, NEW w \in Nat, Rows(rows, columns, n, w), NEW row,
         row = [c \in columns |-> row[c]], row["id"] = n + 1, row["created_at"] = w
  PROVE  Rows(More(rows, n + 1, row), columns, n + 1, w + 1)
<1> DEFINE more == More(rows, n + 1, row)
<1>1. DOMAIN more = DOMAIN rows \cup {n + 1} /\ more[n + 1] = row /\ more = [i \in DOMAIN more |-> more[i]]
  BY DEF Over, More
<1>2. n + 1 \notin DOMAIN rows
  BY DEF Rows
<1>3. \A i \in DOMAIN rows : more[i] = rows[i]
  BY <1>2 DEF Over, More
<1> HIDE DEF more
<1>4. DOMAIN more \subseteq 1..(n + 1)
  BY <1>1 DEF Rows
<1>5. ASSUME NEW i \in DOMAIN more
      PROVE  /\ more[i] = [c \in columns |-> more[i][c]] /\ more[i]["id"] = i
             /\ more[i]["created_at"] \in Nat /\ more[i]["created_at"] < w + 1
  <2>1. CASE i = n + 1
    BY <1>1, <2>1
  <2>2. CASE i \in DOMAIN rows
    BY <1>3, <2>2 DEF Rows
  <2>3. QED
    BY <1>1, <2>1, <2>2
<1>6. ASSUME NEW i \in DOMAIN more, NEW k \in DOMAIN more, i # k
      PROVE  more[i]["created_at"] # more[k]["created_at"]
  <2>1. \A j \in DOMAIN rows : more[j]["created_at"] < w
    BY <1>3 DEF Rows
  <2>2. \A j \in DOMAIN rows : more[j]["created_at"] \in Nat
    BY <1>3 DEF Rows
  <2>3. more[n + 1]["created_at"] = w
    BY <1>1
  <2>4. CASE i \in DOMAIN rows /\ k \in DOMAIN rows
    BY <1>3, <1>6, <2>4 DEF Rows
  <2>5. CASE i = n + 1 /\ k \in DOMAIN rows
    BY <2>1, <2>2, <2>3, <2>5
  <2>6. CASE i \in DOMAIN rows /\ k = n + 1
    BY <2>1, <2>2, <2>3, <2>6
  <2>7. QED
    BY <1>1, <1>6, <2>4, <2>5, <2>6
<1>7. QED
  BY <1>1, <1>3, <1>4, <1>5, <1>6 DEF Rows, more

\* The row that _job_insert makes.
NewJob(t, args) ==
  [id |-> t.issued + 1, org_id |-> args[1], user_id |-> args[2], datasource_ref |-> args[3],
   datasink_name |-> args[4], destination_dataset |-> args[5], asset_resolution |-> args[6],
   asset_datasink_name |-> args[7], asset_dataset |-> args[8], webhook_url |-> args[9],
   status |-> "pending", records_total |-> NULL, records_processed |-> 0, error_message |-> NULL,
   created_at |-> t.now, started_at |-> NULL, completed_at |-> NULL,
   last_heartbeat_at |-> NULL, external_dataset_id |-> NULL]

\* The row that _job_insert makes has the columns of a job, the next id, and is made now.
LEMMA NewJobIs ==
  ASSUME NEW t, NEW args
  PROVE  /\ DOMAIN NewJob(t, args) = JobKeys
         /\ NewJob(t, args) = [c \in JobKeys |-> NewJob(t, args)[c]]
         /\ NewJob(t, args)["id"] = t.issued + 1 /\ NewJob(t, args)["created_at"] = t.now
  BY DEF NewJob, JobKeys

\* A column that only the row below has is that row's.
LEMMA OverAbsent ==
  ASSUME NEW f, NEW g, NEW c, c \in DOMAIN g, c \notin DOMAIN f
  PROVE  Over(f, g)[c] = g[c]
  BY DEF Over

\* The row that the INSERT and the table's defaults make is the one that _job_insert makes.
LEMMA NewJobSql ==
  ASSUME NEW t, NEW args, args[10] = Demo!Absent["field_extraction"]
  PROVE  Over(Bound(JobColumns, args), Over(Sql!Defaults("export_jobs"), [id |-> t.issued + 1, created_at |-> t.now]))
           = Demo!Response(NewJob(t, args))
<1> DEFINE b == Bound(JobColumns, args)
           d == Sql!Defaults("export_jobs")
           rest == [id |-> t.issued + 1, created_at |-> t.now]
           new == Over(b, Over(d, rest))
           row == NewJob(t, args)
           B == {"org_id", "user_id", "datasource_ref", "datasink_name", "destination_dataset", "asset_resolution",
                 "asset_datasink_name", "asset_dataset", "webhook_url"}
           D == {"status", "records_total", "records_processed", "error_message", "started_at", "completed_at",
                 "last_heartbeat_at", "external_dataset_id"}
           R == {"id", "created_at"}
           K == JobKeys \cup {"field_extraction"}
<1>1. DOMAIN b = B \cup {"field_extraction"} /\ DOMAIN d = D /\ DOMAIN rest = R
  BY DEF Bound, JobColumns, Sql!Defaults
<1>2. K = B \cup D \cup R \cup {"field_extraction"} /\ JobKeys = B \cup D \cup R
  BY DEF JobKeys
<1>3. DOMAIN new = K
  BY <1>1, <1>2, OverIs DEF Over
<1>4. new = [c \in K |-> new[c]]
  BY <1>3 DEF Over
<1>5. Demo!Response(row) = [c \in K |-> Demo!Response(row)[c]]
  BY NewJobIs, ResponseIs
<1>6. ASSUME NEW c \in B PROVE b[c] = row[c]
  BY DEF Bound, JobColumns, NewJob
<1>7. ASSUME NEW c \in D PROVE d[c] = row[c]
  BY DEF Sql!Defaults, NewJob
<1>8. ASSUME NEW c \in R PROVE rest[c] = row[c]
  BY DEF NewJob
<1>9. b["field_extraction"] = Demo!Absent["field_extraction"]
  BY DEF Bound, JobColumns
<1>10. Demo!Response(row)["field_extraction"] = Demo!Absent["field_extraction"]
  <2>1. "field_extraction" \notin DOMAIN row
    BY NewJobIs DEF JobKeys
  <2>2. "field_extraction" \in DOMAIN Demo!Absent
    BY DEF Demo!Absent
  <2> HIDE DEF row
  <2>3. Over(row, Demo!Absent)["field_extraction"] = Demo!Absent["field_extraction"]
    BY <2>1, <2>2, OverAbsent
  <2>4. QED
    BY <2>3, ResponseIs
<1>11. \A c \in JobKeys : Demo!Response(row)[c] = row[c]
  BY NewJobIs, ResponseIs
<1>12. (B \cup {"field_extraction"}) \cap D = {} /\ (B \cup {"field_extraction"}) \cap R = {} /\ D \cap R = {}
  OBVIOUS
<1> HIDE DEF b, d, rest, row, B, D, R, K
<1>13. ASSUME NEW c \in K PROVE new[c] = Demo!Response(row)[c]
  <2>1. CASE c \in B \cup {"field_extraction"}
    <3>1. new[c] = b[c]
      BY <1>1, <2>1 DEF Over
    <3>2. QED
      BY <1>2, <1>6, <1>9, <1>10, <1>11, <2>1, <3>1
  <2>2. CASE c \in D
    <3>1. new[c] = d[c]
      BY <1>1, <1>12, <2>2 DEF Over
    <3>2. QED
      BY <1>2, <1>7, <1>11, <2>2, <3>1
  <2>3. CASE c \in R
    <3>1. new[c] = rest[c]
      BY <1>1, <1>12, <2>3 DEF Over
    <3>2. QED
      BY <1>2, <1>8, <1>11, <2>3, <3>1
  <2>4. QED
    BY <1>2, <2>1, <2>2, <2>3
<1> HIDE DEF new
<1>14. new = Demo!Response(row)
  BY <1>4, <1>5, <1>13
<1>15. QED
  BY <1>14 DEF new, b, d, rest, row

\* A row more is shown as one more shown row.
LEMMA MoreShown ==
  ASSUME NEW rows, NEW row, NEW n
  PROVE  ShownRows(More(rows, n, row)) = More(ShownRows(rows), n, Demo!Response(row))
<1> DEFINE a == More(rows, n, row)
           b == More(ShownRows(rows), n, Demo!Response(row))
<1>1. DOMAIN a = {n} \cup DOMAIN rows /\ DOMAIN b = {n} \cup DOMAIN rows
  BY DEF More, Over, ShownRows
<1>2. \A i \in DOMAIN a : ShownRows(a)[i] = b[i]
  BY DEF ShownRows, More, Over
<1>3. ShownRows(a) = [i \in DOMAIN a |-> ShownRows(a)[i]] /\ b = [i \in DOMAIN b |-> b[i]]
  BY DEF ShownRows, More, Over
<1> HIDE DEF a, b
<1>4. ShownRows(a) = b
  BY <1>1, <1>2, <1>3
<1>5. QED
  BY <1>4 DEF a, b

\* Tables, by their parts.
Record(e, c, s, i, n) == [export_jobs |-> e, connections |-> c, sync_jobs |-> s, issued |-> i, now |-> n]

\* The INSERT of a job is alike, if it asks for no field extraction, and returns its row.
LEMMA InsertJobAlike ==
  ASSUME NEW t, Tables(t), NEW args, args[10] = Demo!Absent["field_extraction"]
  PROVE  AlikeRow(t, InsertJob, args) /\ Dispatch(t, InsertJob, args).res # NoRow
<1> DEFINE st == InsertJob
           e == t.export_jobs
           id == t.issued + 1
           row == NewJob(t, args)
           more == More(e, id, row)
           d == [export_jobs |-> more, connections |-> t.connections, sync_jobs |-> <<>>, issued |-> id, now |-> t.now + 1]
<1>1. st.table = "export_jobs" /\ st.verb = "insert" /\ st.set = JobColumns /\ st.put = <<>>
  BY DEF InsertJob, Blank
<1>0. Dispatch(t, st, args) = JobInsert(t, args)
  BY Dispatched
<1> HIDE DEF st
<1>2. Dispatch(t, st, args) = Answer(d, row)
  <2>1. Dispatch(t, st, args) = JobInsert(t, args)
    BY <1>0
  <2>2. JobInsert(t, args) = Answer([Put(t, "export_jobs", id, row) EXCEPT !.issued = id, !.now = @ + 1], row)
    BY DEF JobInsert, NewJob
  <2> HIDE DEF row
  <2>3. Put(t, "export_jobs", id, row) = [t EXCEPT !.export_jobs = more]
    BY DEF Put, More
  <2> HIDE DEF more
  <2>4. [[t EXCEPT !.export_jobs = more] EXCEPT !.issued = id, !.now = @ + 1] = d
    <3> DEFINE u == [t EXCEPT !.export_jobs = more]
    <3>1. u = Record(more, t.connections, <<>>, t.issued, t.now)
      BY DEF Record, Tables
    <3> HIDE DEF u, id
    <3> DEFINE v == [u EXCEPT !.issued = id]
    <3>2. [u EXCEPT !.issued = id, !.now = @ + 1] = [v EXCEPT !.now = u.now + 1] /\ u.now = t.now
      BY <3>1 DEF Record
    <3>3. v = Record(more, t.connections, <<>>, id, t.now)
      BY <3>1 DEF Record
    <3> HIDE DEF v
    <3>4. [v EXCEPT !.now = t.now + 1] = d
      BY <3>3 DEF Record
    <3>5. QED
      BY <3>2, <3>4 DEF u
  <2>5. QED
    BY <2>1, <2>2, <2>3, <2>4
<1>3. Tables(d)
  <2>1. t.issued \in Nat /\ t.now \in Nat
    BY DEF Tables
  <2>2. Rows(more, JobKeys, id, t.now + 1)
    <3>1. Rows(e, JobKeys, t.issued, t.now)
      BY DEF Tables
    <3>2. row = [c \in JobKeys |-> row[c]] /\ row["id"] = id /\ row["created_at"] = t.now
      BY NewJobIs
    <3> HIDE DEF row, e
    <3> HIDE DEF id
    <3>3. id = t.issued + 1
      BY DEF id
    <3>4. QED
      BY <2>1, <3>1, <3>2, <3>3, MoreRows
  <2>3. Rows(t.connections, ConnectionKeys, id, t.now + 1)
    <3>1. Rows(t.connections, ConnectionKeys, t.issued, t.now)
      BY DEF Tables
    <3>2. QED
      BY <2>1, <3>1, LaterRows
  <2> HIDE DEF more
  <2>4. QED
    BY <2>1, <2>2, <2>3 DEF Tables
<1>4. SqlExec(Shown(t), st, args) = Answer(Shown(d), Demo!Response(row))
  <2> DEFINE new == Demo!Response(row)
             x == More(ShownRows(e), id, new)
             s == Shown(t)
  <2>1. s = [export_jobs |-> ShownRows(e), connections |-> t.connections, sync_jobs |-> <<>>,
             issued |-> t.issued, now |-> t.now]
    BY ShownIs
  <2>2. Shown(d) = [export_jobs |-> ShownRows(more), connections |-> t.connections, sync_jobs |-> <<>>,
                    issued |-> id, now |-> t.now + 1]
    <3> HIDE DEF more
    <3>1. Shown(d) = [export_jobs |-> ShownRows(d.export_jobs), connections |-> d.connections, sync_jobs |-> <<>>,
                        issued |-> d.issued, now |-> d.now]
      BY <1>3, ShownIs
    <3>2. QED
      BY <3>1
  <2>3. ShownRows(more) = x
    <3> HIDE DEF row, e, id
    <3>1. QED
      BY MoreShown
  <2>4. Sql!Over(Sql!Bound(st.set, args), Sql!Over(Sql!Defaults(st.table), [id |-> s.issued + 1, created_at |-> s.now])) = new
    <3>1. s.issued = t.issued /\ s.now = t.now
      BY <2>1
    <3> HIDE DEF s, new
    <3>2. QED
      BY <1>1, <3>1, NewJobSql, SameOperators DEF new
  <2>5. Sql!Sql(s, st, args) = Sql!SqlInsert(s, st, args)
    BY <1>1 DEF Sql!Sql
  <2>6. s.issued + 1 = id /\ s["export_jobs"] = ShownRows(e)
    BY <2>1
  <2> HIDE DEF s, new, e, more, row
  <2>7. Sql!SqlInsert(s, st, args) = Sql!Answer([s EXCEPT ![st.table] = Sql!Over([i \in {s.issued + 1} |-> new], @), !.issued = s.issued + 1, !.now = @ + 1], new)
    BY <2>4 DEF Sql!SqlInsert
  <2>8. [s EXCEPT ![st.table] = Sql!Over([i \in {s.issued + 1} |-> new], @), !.issued = s.issued + 1, !.now = @ + 1]
         = [s EXCEPT !["export_jobs"] = x, !.issued = id, !.now = @ + 1]
    <3>1. st.table = "export_jobs"
      BY <1>1
    <3>2. Sql!Over([i \in {id} |-> new], s["export_jobs"]) = x
      BY <2>6, SameOperators DEF More
    <3> HIDE DEF x, id
    <3>3. QED
      BY <2>6, <3>1, <3>2
  <2> HIDE DEF x
  <2>9. [s EXCEPT !["export_jobs"] = x, !.issued = id, !.now = @ + 1] = Shown(d)
    <3> DEFINE u == [s EXCEPT !["export_jobs"] = x]
               v == [u EXCEPT !["issued"] = id]
    <3>1. s.now = t.now
      BY <2>1
    <3> HIDE DEF id, d
    <3>2. u = Record(x, t.connections, <<>>, t.issued, t.now)
      BY <2>1 DEF Record
    <3>3. [s EXCEPT !["export_jobs"] = x, !.issued = id, !.now = @ + 1] = [v EXCEPT !["now"] = t.now + 1]
      BY <2>1, <3>1
    <3> HIDE DEF u
    <3>4. v = Record(x, t.connections, <<>>, id, t.now)
      BY <3>2 DEF Record
    <3> HIDE DEF v
    <3>5. [v EXCEPT !["now"] = t.now + 1] = Record(x, t.connections, <<>>, id, t.now + 1)
      BY <3>4 DEF Record
    <3>6. QED
      BY <2>2, <2>3, <3>3, <3>5 DEF Record
  <2>10. QED
    BY <2>5, <2>7, <2>8, <2>9, SameOperators DEF SqlExec, s, new
<1>5. row # NoRow
  <2>1. DOMAIN row # DOMAIN NoRow
    BY NewJobIs DEF JobKeys, NoRow
  <2>2. QED
    BY <2>1
<1> HIDE DEF row, d
<1>6. QED
  BY <1>2, <1>3, <1>4, <1>5 DEF AlikeRow, Answer, Lift, st

-----------------------------------------------------------------------------
\* The statements on connections.

\* The connections that a statement finds in the database.
LEMMA ConnectionsChosen ==
  ASSUME NEW t, Tables(t), NEW st, NEW args, st.table = "connections", st.among = <<>>, st.before = <<>>
  PROVE  /\ Shown(t)[st.table] = t.connections
         /\ Sql!Chosen(Shown(t), st, args)
              = {i \in DOMAIN t.connections : \A c \in DOMAIN st.where : t.connections[i][c] = args[st.where[c]]}
<1>1. Shown(t)[st.table] = t.connections
  BY ShownIs
<1>2. QED
  BY <1>1 DEF Sql!Chosen, Sql!Satisfies

\* A row of connections has its columns, and its id.
LEMMA ConnectionRow ==
  ASSUME NEW t, Tables(t), NEW i \in DOMAIN t.connections
  PROVE  /\ DOMAIN t.connections[i] = ConnectionKeys
         /\ t.connections[i] = [c \in ConnectionKeys |-> t.connections[i][c]]
         /\ t.connections[i]["id"] = i /\ t.connections[i] # NoRow
<1>1. Rows(t.connections, ConnectionKeys, t.issued, t.now)
  BY DEF Tables
<1>2. "id" \in ConnectionKeys
  BY DEF ConnectionKeys
<1>3. DOMAIN t.connections[i] = ConnectionKeys /\ t.connections[i] # NoRow
  BY <1>1, <1>2, RowIs
<1>4. QED
  BY <1>1, <1>3 DEF Rows

\* What a query for one row returns, when the connection of an id is the only one it may find.
LEMMA OnlyConnection ==
  ASSUME NEW t, Tables(t), NEW j, NEW ids, ids = {j} \cap DOMAIN t.connections \/ ids = {}
  PROVE  Sql!Only(t.connections, ids) = IF ids = {} THEN NoRow ELSE Get(t.connections, j)
  BY SameOperators DEF Sql!Only, Get

\* get_connection_by_id's SELECT is alike.
LEMMA ConnectionAlike ==
  ASSUME NEW t, Tables(t), NEW j
  PROVE  Alike(t, ById("connections"), <<j>>)
<1> DEFINE st == ById("connections")
           rows == t.connections
           row == Get(rows, j)
           ids == {j} \cap DOMAIN rows
<1>1. st.table = "connections" /\ st.verb = "select" /\ st.what = "*" /\ st.where = [id |-> 1] /\ st.among = <<>> /\ st.before = <<>>
  BY DEF ById, On, Blank
<1>0. st.text = {"from_connections", "where_id_=_$1"} /\ Dispatch(t, st, <<j>>) = ConnSelect(t, st, <<j>>)
  BY Dispatched DEF ById, On, Blank, From
<1> HIDE DEF st
<1>2. Dispatch(t, st, <<j>>) = Answer(t, row)
  BY <1>0 DEF ConnSelect
<1>3. Sql!Chosen(Shown(t), st, <<j>>) = ids
  <2>1. \A i \in DOMAIN rows : rows[i]["id"] = i
    BY ConnectionRow
  <2>2. QED
    BY <1>1, <2>1, ConnectionsChosen
<1>4. SqlExec(Shown(t), st, <<j>>) = Answer(Shown(t), Sql!Only(rows, ids))
  <2> HIDE DEF ids, rows
  <2>1. Shown(t)[st.table] = rows
    BY <1>1, ConnectionsChosen DEF rows
  <2>2. QED
    BY <1>1, <1>3, <2>1, SameOperators DEF SqlExec, Sql!Sql, Sql!SqlSelect
<1>5. Sql!Only(rows, ids) = row
  BY OnlyConnection DEF Get
<1>6. QED
  BY <1>2, <1>4, <1>5, AlikeIs DEF st

\* A statement on an id and an owner finds the connection of that id, if it is that owner's.
LEMMA OwnChosen ==
  ASSUME NEW t, Tables(t), NEW st, NEW args, st.table = "connections", st.among = <<>>, st.before = <<>>,
         NEW j, NEW owner, NEW m, NEW n, st.where = [id |-> m, owner_key |-> n] \/ st.where = [owner_key |-> n, id |-> m],
         args[m] = j, args[n] = owner
  PROVE  Sql!Chosen(Shown(t), st, args)
           = IF j \in DOMAIN t.connections /\ t.connections[j]["owner_key"] = owner THEN {j} \cap DOMAIN t.connections ELSE {}
<1> DEFINE rows == t.connections
<1>1. \A i \in DOMAIN rows : rows[i]["id"] = i
  BY ConnectionRow
<1>2. DOMAIN st.where = {"id", "owner_key"} /\ st.where["id"] = m /\ st.where["owner_key"] = n
  OBVIOUS
<1>3. Sql!Chosen(Shown(t), st, args) = {i \in DOMAIN rows : \A c \in DOMAIN st.where : rows[i][c] = args[st.where[c]]}
  BY ConnectionsChosen
<1> HIDE DEF rows
<1>4. {i \in DOMAIN rows : \A c \in DOMAIN st.where : rows[i][c] = args[st.where[c]]} = {i \in DOMAIN rows : i = j /\ rows[i]["owner_key"] = owner}
  BY <1>1, <1>2
<1>5. QED
  BY <1>3, <1>4 DEF rows

\* get_connection's SELECT, by id and owner, is alike.
LEMMA OwnAlike ==
  ASSUME NEW t, Tables(t), NEW j, NEW owner
  PROVE  Alike(t, OwnConnection, <<j, owner>>)
<1> DEFINE st == OwnConnection
           args == <<j, owner>>
           rows == t.connections
           row == Get(rows, j)
           own == j \in DOMAIN rows /\ rows[j]["owner_key"] = owner
           ids == IF own THEN {j} \cap DOMAIN rows ELSE {}
           res == IF own THEN row ELSE NoRow
<1>1. st.table = "connections" /\ st.verb = "select" /\ st.what = "*" /\ st.where = [id |-> 1, owner_key |-> 2] /\ st.among = <<>> /\ st.before = <<>>
  BY DEF OwnConnection, On, Blank
<1>0. args[1] = j /\ args[2] = owner
  OBVIOUS
<1>7. "where_id_=_$1_and_owner_key_=_$2" \in st.text /\ Dispatch(t, st, args) = ConnSelect(t, st, args)
  BY Dispatched DEF OwnConnection, On, Blank
<1> HIDE DEF st, args
<1>2. Dispatch(t, st, args) = Answer(t, res)
  <2>2. Dispatch(t, st, args) = ConnSelect(t, st, args)
    BY <1>7
  <2>3. ConnSelect(t, st, args) = Answer(t, IF row # NoRow /\ row["owner_key"] = owner THEN row ELSE NoRow)
    BY <1>0, <1>7 DEF ConnSelect
  <2>4. j \in DOMAIN rows => rows[j] # NoRow
    BY ConnectionRow
  <2>5. QED
    BY <2>2, <2>3, <2>4 DEF Get
<1>3. Sql!Chosen(Shown(t), st, args) = ids
  BY <1>0, <1>1, OwnChosen
<1>4. SqlExec(Shown(t), st, args) = Answer(Shown(t), Sql!Only(rows, ids))
  BY <1>1, <1>3, ConnectionsChosen, SameOperators DEF SqlExec, Sql!Sql, Sql!SqlSelect
<1>5. Sql!Only(rows, ids) = res
  BY OnlyConnection DEF Get
<1> HIDE DEF res
<1>6. QED
  BY <1>2, <1>4, <1>5, AlikeIs DEF st, args

\* list_connections' SELECT, by the owner alone, is alike.
LEMMA OwnListAlike ==
  ASSUME NEW t, Tables(t), NEW owner
  PROVE  Alike(t, OwnConnections, <<owner>>)
<1> DEFINE st == OwnConnections
           rows == t.connections
           own == {i \in DOMAIN rows : rows[i]["owner_key"] = owner}
           res == RowsOf(rows, Newest(own, Created(rows, own)))
<1>1. st.table = "connections" /\ st.verb = "select" /\ st.what = "list" /\ st.where = [owner_key |-> 1] /\ st.among = <<>> /\ st.before = <<>>
  BY DEF OwnConnections, On, Blank
<1>2. ~st.paged
  BY DEF OwnConnections, On, Blank
<1>0. st.text = {"from_connections", "where_owner_key_=_$1"} /\ Dispatch(t, st, <<owner>>) = ConnSelect(t, st, <<owner>>)
  BY Dispatched DEF OwnConnections, On, Blank
<1> HIDE DEF st
<1>3. Dispatch(t, st, <<owner>>) = Answer(t, res)
  BY <1>0 DEF ConnSelect, InOrder
<1>4. Sql!Chosen(Shown(t), st, <<owner>>) = own
  BY <1>1, ConnectionsChosen
<1>5. SqlExec(Shown(t), st, <<owner>>) = Answer(Shown(t), res)
  <2>1. Shown(t)[st.table] = rows
    BY <1>1, ConnectionsChosen
  <2>2. \A i, c : Sql!Newest(i, c) = Newest(i, c)
    BY Zenon DEF Sql!Newest, Newest, Cardinality, Sql!Cardinality
  <2>3. \A r, i : Sql!Created(r, i) = Created(r, i) /\ Sql!RowsOf(r, i) = RowsOf(r, i)
    BY DEF Sql!Created, Created, Sql!RowsOf, RowsOf
  <2>4. Sql!Sql(Shown(t), st, <<owner>>) = Sql!SqlSelect(Shown(t), st, <<owner>>)
    BY <1>1 DEF Sql!Sql
  <2> HIDE DEF own
  <2>5. Sql!SqlSelect(Shown(t), st, <<owner>>) = Answer(Shown(t), res)
    BY <1>1, <1>2, <1>4, <2>1, <2>2, <2>3, SameOperators DEF Sql!SqlSelect
  <2>6. QED
    BY <2>4, <2>5 DEF SqlExec
<1> HIDE DEF res
<1>6. QED
  BY <1>3, <1>5, AlikeIs DEF st

\* count_referencing_jobs asks for a table that is empty in both.
LEMMA CountReferencingAlike ==
  ASSUME NEW t, Tables(t), NEW j
  PROVE  Alike(t, CountReferencing, <<j>>)
<1> DEFINE st == CountReferencing
<1>1. st.table = "sync_jobs" /\ st.verb = "select" /\ st.what = "count"
  BY DEF CountReferencing, On, Blank
<1>2. Dispatch(t, st, <<j>>) = Answer(t, 0)
  BY Dispatched
<1> HIDE DEF st
<1>3. Shown(t)[st.table] = <<>>
  BY <1>1, ShownIs
<1>4. Sql!Chosen(Shown(t), st, <<j>>) = {}
  BY <1>3 DEF Sql!Chosen
<1>5. Cardinality({}) = 0
  BY FS_EmptySet
<1>6. SqlExec(Shown(t), st, <<j>>) = Answer(Shown(t), 0)
  BY <1>1, <1>4, <1>5, SameOperators, SameCardinality DEF SqlExec, Sql!Sql, Sql!SqlSelect
<1>7. QED
  BY <1>2, <1>6, AlikeIs DEF st

\* The row that _conn_insert makes.
NewConnection(t, args) ==
  [id |-> t.issued + 1, owner_key |-> args[1], label |-> args[2], credentials_enc |-> args[3],
   status |-> "untested", last_tested_at |-> NULL, created_at |-> t.now]

\* The row that _conn_insert makes has the columns of a connection, the next id, and is made now.
LEMMA NewConnectionIs ==
  ASSUME NEW t, NEW args
  PROVE  /\ DOMAIN NewConnection(t, args) = ConnectionKeys
         /\ NewConnection(t, args) = [c \in ConnectionKeys |-> NewConnection(t, args)[c]]
         /\ NewConnection(t, args)["id"] = t.issued + 1 /\ NewConnection(t, args)["created_at"] = t.now
  BY DEF NewConnection, ConnectionKeys

\* The row that the INSERT and the table's defaults make is the one that _conn_insert makes.
LEMMA NewConnectionSql ==
  ASSUME NEW t, NEW args
  PROVE  Over(Bound([owner_key |-> 1, label |-> 2, credentials_enc |-> 3], args),
              Over(Sql!Defaults("connections"), [id |-> t.issued + 1, created_at |-> t.now]))
           = NewConnection(t, args)
<1> DEFINE b == Bound([owner_key |-> 1, label |-> 2, credentials_enc |-> 3], args)
           d == Sql!Defaults("connections")
           rest == [id |-> t.issued + 1, created_at |-> t.now]
           new == Over(b, Over(d, rest))
           row == NewConnection(t, args)
           B == {"owner_key", "label", "credentials_enc"}
           D == {"status", "last_tested_at"}
           R == {"id", "created_at"}
<1>1. DOMAIN b = B /\ DOMAIN d = D /\ DOMAIN rest = R
  BY DEF Bound, Sql!Defaults
<1>2. ConnectionKeys = B \cup D \cup R
  BY DEF ConnectionKeys
<1>3. ASSUME NEW c \in B PROVE b[c] = row[c]
  BY DEF Bound, NewConnection
<1>4. ASSUME NEW c \in D PROVE d[c] = row[c]
  BY DEF Sql!Defaults, NewConnection
<1>5. ASSUME NEW c \in R PROVE rest[c] = row[c]
  BY DEF NewConnection
<1>6. B \cap D = {} /\ B \cap R = {} /\ D \cap R = {}
  OBVIOUS
<1> HIDE DEF b, d, rest, row, B, D, R
<1>7. new = [c \in ConnectionKeys |-> new[c]]
  BY <1>1, <1>2 DEF Over
<1>8. ASSUME NEW c \in ConnectionKeys PROVE new[c] = row[c]
  <2>1. CASE c \in B
    BY <1>1, <1>3, <2>1 DEF Over
  <2>2. CASE c \in D
    BY <1>1, <1>4, <1>6, <2>2 DEF Over
  <2>3. CASE c \in R
    BY <1>1, <1>5, <1>6, <2>3 DEF Over
  <2>4. QED
    BY <1>2, <2>1, <2>2, <2>3
<1>9. row = [c \in ConnectionKeys |-> row[c]]
  BY NewConnectionIs DEF row
<1> HIDE DEF new
<1>10. new = row
  BY <1>7, <1>8, <1>9
<1>11. QED
  BY <1>10 DEF new, b, d, rest, row

\* insert_connection's INSERT is alike.
LEMMA InsertConnectionAlike ==
  ASSUME NEW t, Tables(t), NEW args
  PROVE  Alike(t, InsertConnection, args)
<1> DEFINE st == InsertConnection
           rows == t.connections
           id == t.issued + 1
           row == NewConnection(t, args)
           more == More(rows, id, row)
           d == [export_jobs |-> t.export_jobs, connections |-> more, sync_jobs |-> <<>>, issued |-> id, now |-> t.now + 1]
<1>1. /\ st.table = "connections" /\ st.verb = "insert" /\ st.put = <<>>
      /\ st.set = [owner_key |-> 1, label |-> 2, credentials_enc |-> 3]
  BY DEF InsertConnection, On, Blank
<1>0. Dispatch(t, st, args) = ConnInsert(t, args)
  BY Dispatched
<1> HIDE DEF st
<1>2. Dispatch(t, st, args) = Answer(d, row)
  <2>1. Dispatch(t, st, args) = ConnInsert(t, args)
    BY <1>0
  <2>2. ConnInsert(t, args) = Answer([Put(t, "connections", id, row) EXCEPT !.issued = id, !.now = @ + 1], row)
    BY DEF ConnInsert, NewConnection
  <2> HIDE DEF row
  <2>3. Put(t, "connections", id, row) = [t EXCEPT !.connections = more]
    BY DEF Put, More
  <2> HIDE DEF more
  <2>4. [[t EXCEPT !.connections = more] EXCEPT !.issued = id, !.now = @ + 1] = d
    <3> DEFINE u == [t EXCEPT !.connections = more]
    <3>1. u = Record(t.export_jobs, more, <<>>, t.issued, t.now)
      BY DEF Record, Tables
    <3> HIDE DEF u, id
    <3> DEFINE v == [u EXCEPT !.issued = id]
    <3>2. [u EXCEPT !.issued = id, !.now = @ + 1] = [v EXCEPT !.now = u.now + 1] /\ u.now = t.now
      BY <3>1 DEF Record
    <3>3. v = Record(t.export_jobs, more, <<>>, id, t.now)
      BY <3>1 DEF Record
    <3> HIDE DEF v
    <3>4. [v EXCEPT !.now = t.now + 1] = d
      BY <3>3 DEF Record
    <3>5. QED
      BY <3>2, <3>4 DEF u
  <2>5. QED
    BY <2>1, <2>2, <2>3, <2>4
<1>3. Tables(d)
  <2>1. t.issued \in Nat /\ t.now \in Nat
    BY DEF Tables
  <2>2. Rows(more, ConnectionKeys, id, t.now + 1)
    <3>1. Rows(rows, ConnectionKeys, t.issued, t.now)
      BY DEF Tables
    <3>2. row = [c \in ConnectionKeys |-> row[c]] /\ row["id"] = id /\ row["created_at"] = t.now
      BY NewConnectionIs
    <3> HIDE DEF row, rows
    <3> HIDE DEF id
    <3>3. id = t.issued + 1
      BY DEF id
    <3>4. QED
      BY <2>1, <3>1, <3>2, <3>3, MoreRows
  <2>3. Rows(t.export_jobs, JobKeys, id, t.now + 1)
    <3>1. Rows(t.export_jobs, JobKeys, t.issued, t.now)
      BY DEF Tables
    <3>2. QED
      BY <2>1, <3>1, LaterRows
  <2> HIDE DEF more
  <2>4. QED
    BY <2>1, <2>2, <2>3 DEF Tables
<1>4. SqlExec(Shown(t), st, args) = Answer(Shown(d), row)
  <2> DEFINE s == Shown(t)
             e == ShownRows(t.export_jobs)
  <2>1. s = Record(e, rows, <<>>, t.issued, t.now)
    BY ShownIs DEF Record
  <2>2. Shown(d) = Record(e, more, <<>>, id, t.now + 1)
    <3> HIDE DEF more
    <3>1. Shown(d) = [export_jobs |-> ShownRows(d.export_jobs), connections |-> d.connections, sync_jobs |-> <<>>,
                        issued |-> d.issued, now |-> d.now]
      BY <1>3, ShownIs
    <3>2. QED
      BY <3>1 DEF Record
  <2>4. Sql!Over(Sql!Bound(st.set, args), Sql!Over(Sql!Defaults(st.table), [id |-> s.issued + 1, created_at |-> s.now])) = row
    <3>1. s.issued = t.issued /\ s.now = t.now
      BY <2>1 DEF Record
    <3> HIDE DEF s, row
    <3>2. QED
      BY <1>1, <3>1, NewConnectionSql, SameOperators DEF row
  <2>5. Sql!Sql(s, st, args) = Sql!SqlInsert(s, st, args)
    BY <1>1 DEF Sql!Sql
  <2>6. s.issued + 1 = id /\ s["connections"] = rows
    BY <2>1 DEF Record
  <2> HIDE DEF s, rows, row
  <2>7. Sql!SqlInsert(s, st, args) = Sql!Answer([s EXCEPT ![st.table] = Sql!Over([i \in {s.issued + 1} |-> row], @), !.issued = s.issued + 1, !.now = @ + 1], row)
    BY <2>4 DEF Sql!SqlInsert
  <2>8. [s EXCEPT ![st.table] = Sql!Over([i \in {s.issued + 1} |-> row], @), !.issued = s.issued + 1, !.now = @ + 1]
         = [s EXCEPT !["connections"] = more, !.issued = id, !.now = @ + 1]
    <3>1. st.table = "connections"
      BY <1>1
    <3>2. Sql!Over([i \in {id} |-> row], s["connections"]) = more
      BY <2>6, SameOperators DEF More
    <3> HIDE DEF more, id
    <3>3. QED
      BY <2>6, <3>1, <3>2
  <2> HIDE DEF more
  <2>9. [s EXCEPT !["connections"] = more, !.issued = id, !.now = @ + 1] = Shown(d)
    <3> DEFINE u == [s EXCEPT !["connections"] = more]
               v == [u EXCEPT !["issued"] = id]
    <3>1. s.now = t.now
      BY <2>1 DEF Record
    <3> HIDE DEF id, d
    <3>2. u = Record(e, more, <<>>, t.issued, t.now)
      BY <2>1 DEF Record
    <3>3. [s EXCEPT !["connections"] = more, !.issued = id, !.now = @ + 1] = [v EXCEPT !["now"] = t.now + 1]
      BY <2>1, <3>1 DEF Record
    <3> HIDE DEF u
    <3>4. v = Record(e, more, <<>>, id, t.now)
      BY <3>2 DEF Record
    <3> HIDE DEF v
    <3>5. [v EXCEPT !["now"] = t.now + 1] = Record(e, more, <<>>, id, t.now + 1)
      BY <3>4 DEF Record
    <3>6. QED
      BY <2>2, <3>3, <3>5
  <2>10. QED
    BY <2>5, <2>7, <2>8, <2>9, SameOperators DEF SqlExec, s
<1> HIDE DEF row, d
<1>5. QED
  BY <1>2, <1>3, <1>4, AlikeIs DEF st

\* Other connections in the tables, and as they show.
LEMMA ConnectionsTables ==
  ASSUME NEW t, Tables(t), NEW rows, Rows(rows, ConnectionKeys, t.issued, t.now)
  PROVE  LET after == [t EXCEPT !.connections = rows]
         IN  Tables(after) /\ Shown(after) = [Shown(t) EXCEPT !.connections = rows]
<1> DEFINE after == [t EXCEPT !.connections = rows]
<1>1. after = Record(t.export_jobs, rows, <<>>, t.issued, t.now)
  BY DEF Tables, Record
<1>2. Tables(after)
  <2> HIDE DEF after
  <2>1. after = [export_jobs |-> after.export_jobs, connections |-> after.connections, sync_jobs |-> <<>>,
                 issued |-> after.issued, now |-> after.now]
    BY <1>1 DEF Record
  <2>2. after.export_jobs = t.export_jobs /\ after.connections = rows /\ after.issued = t.issued /\ after.now = t.now
    BY <1>1 DEF Record
  <2>3. QED
    BY <2>1, <2>2 DEF Tables
<1> HIDE DEF after
<1>3. Shown(after) = Record(ShownRows(t.export_jobs), rows, <<>>, t.issued, t.now)
  <2>1. Shown(after) = [export_jobs |-> ShownRows(after.export_jobs), connections |-> after.connections, sync_jobs |-> <<>>,
                        issued |-> after.issued, now |-> after.now]
    BY <1>2, ShownIs
  <2>2. QED
    BY <1>1, <2>1 DEF Record
<1>4. Shown(t) = Record(ShownRows(t.export_jobs), t.connections, <<>>, t.issued, t.now)
  BY ShownIs DEF Record
<1> DEFINE s == Shown(t)
<1> HIDE DEF s
<1>5. [s EXCEPT !.connections = rows] = Record(ShownRows(t.export_jobs), rows, <<>>, t.issued, t.now)
  <2>1. s = Record(ShownRows(t.export_jobs), t.connections, <<>>, t.issued, t.now)
    BY <1>4 DEF s
  <2>2. QED
    BY <2>1 DEF Record
<1>6. QED
  BY <1>2, <1>3, <1>5 DEF after, s

\* Connections that are updated, but for their ids and times, are connections.
LEMMA UpdatedConnections ==
  ASSUME NEW rows, NEW n, NEW w, Rows(rows, ConnectionKeys, n, w), NEW ids, NEW new,
         DOMAIN new \subseteq ConnectionKeys \ {"id", "created_at"}
  PROVE  Rows(Updated(rows, ids, new), ConnectionKeys, n, w)
<1> DEFINE u == Updated(rows, ids, new)
<1>1. \A i \in DOMAIN rows : DOMAIN rows[i] = ConnectionKeys /\ rows[i] = [c \in ConnectionKeys |-> rows[i][c]]
  BY DEF Rows
<1>2. "id" \in ConnectionKeys /\ "created_at" \in ConnectionKeys
  BY DEF ConnectionKeys
<1>3. DOMAIN u = DOMAIN rows /\ u = [i \in DOMAIN u |-> u[i]]
  BY DEF Updated
<1>4. ASSUME NEW i \in DOMAIN rows
      PROVE  u[i] = [c \in ConnectionKeys |-> u[i][c]] /\ u[i]["id"] = rows[i]["id"] /\ u[i]["created_at"] = rows[i]["created_at"]
  <2>1. CASE i \in ids
    <3>1. u[i] = Over(new, rows[i])
      BY <2>1 DEF Updated
    <3>2. DOMAIN Over(new, rows[i]) = ConnectionKeys /\ Over(new, rows[i]) = [c \in ConnectionKeys |-> Over(new, rows[i])[c]]
      BY <1>1 DEF Over
    <3>3. Over(new, rows[i])["id"] = rows[i]["id"] /\ Over(new, rows[i])["created_at"] = rows[i]["created_at"]
      BY <1>1, <1>2 DEF Over
    <3> HIDE DEF u
    <3>4. QED
      BY <3>1, <3>2, <3>3
  <2>2. CASE i \notin ids
    <3>1. u[i] = rows[i]
      BY <2>2 DEF Updated
    <3> HIDE DEF u
    <3>2. QED
      BY <1>1, <3>1
  <2>3. QED
    BY <2>1, <2>2
<1> HIDE DEF u
<1>5. Rows(u, ConnectionKeys, n, w)
  BY <1>3, <1>4 DEF Rows
<1>6. QED
  BY <1>5 DEF u

\* An update of one connection, if there is one, by the same columns is alike.
LEMMA UpdateConnectionAlike ==
  ASSUME NEW t, Tables(t), NEW st, NEW args, NEW j, NEW ids, ids = {j} \cap DOMAIN t.connections \/ ids = {}, NEW new,
         DOMAIN new \subseteq ConnectionKeys \ {"id", "created_at"},
         st.table = "connections", st.verb = "update",
         Sql!Chosen(Shown(t), st, args) = ids,
         \A i \in DOMAIN t.connections : Sql!Assigned(st, args, t.connections[i]) = Over(new, t.connections[i]),
         Dispatch(t, st, args) =
           IF ids = {} THEN Answer(t, IF st.what = "returning" THEN NoRow ELSE 0)
           ELSE Answer(Put(t, "connections", j, Over(new, t.connections[j])),
                       IF st.what = "returning" THEN Over(new, t.connections[j]) ELSE 1)
  PROVE  Alike(t, st, args)
<1> DEFINE rows == t.connections
           u == Updated(rows, ids, new)
           s == Shown(t)
           x == [i \in DOMAIN s[st.table] |->
                  IF i \in Sql!Chosen(s, st, args) THEN Sql!Assigned(st, args, s[st.table][i]) ELSE s[st.table][i]]
           res == IF st.what = "returning" THEN Sql!Only(u, ids) ELSE Cardinality(ids)
<1>1. s[st.table] = rows
  BY ShownIs
<1>2. Sql!SqlUpdate(s, st, args) = Sql!Answer([s EXCEPT ![st.table] = x],
         IF st.what = "returning" THEN Sql!Only(x, Sql!Chosen(s, st, args)) ELSE Cardinality(Sql!Chosen(s, st, args)))
  BY SameCardinality DEF Sql!SqlUpdate
<1>3. x = u
  BY <1>1 DEF Updated
<1>4. Rows(rows, ConnectionKeys, t.issued, t.now) /\ rows = [i \in DOMAIN rows |-> rows[i]]
  BY DEF Tables, Rows
<1>5. Rows(u, ConnectionKeys, t.issued, t.now)
  <2> HIDE DEF rows
  <2>1. QED
    BY <1>4, UpdatedConnections
<1>6. IF ids = {} THEN u = rows ELSE j \in DOMAIN rows /\ ids = {j} /\ u = More(rows, j, Over(new, rows[j])) /\ u[j] = Over(new, rows[j])
  <2>1. CASE ids = {}
    <3> HIDE DEF rows
    <3>1. QED
      BY <1>4, <2>1 DEF Updated
  <2>2. CASE ids # {}
    <3>1. j \in DOMAIN rows /\ ids = {j}
      BY <2>2
    <3> DEFINE m == More(rows, j, Over(new, rows[j]))
    <3>2. DOMAIN m = DOMAIN rows /\ m = [i \in DOMAIN m |-> m[i]] /\ \A i \in DOMAIN rows : m[i] = IF i = j THEN Over(new, rows[j]) ELSE rows[i]
      BY <3>1 DEF More, Over
    <3>3. DOMAIN u = DOMAIN rows /\ u = [i \in DOMAIN u |-> u[i]] /\ \A i \in DOMAIN rows : u[i] = IF i = j THEN Over(new, rows[j]) ELSE rows[i]
      BY <3>1 DEF Updated
    <3> HIDE DEF m, u, rows
    <3>4. m = u
      BY <3>2, <3>3
    <3>5. QED
      BY <2>2, <3>1, <3>3, <3>4 DEF m
  <2>3. QED
    BY <2>1, <2>2
<1> HIDE DEF x, u, rows, s
<1>7. SqlExec(s, st, args) = Answer([s EXCEPT !.connections = u], res)
  <2>1. Sql!Sql(s, st, args) = Sql!SqlUpdate(s, st, args)
    BY DEF Sql!Sql
  <2>2. Sql!Chosen(s, st, args) = ids
    BY DEF s
  <2>3. QED
    BY <1>2, <1>3, <2>1, <2>2, SameOperators DEF SqlExec
<1>8. Tables([t EXCEPT !.connections = u]) /\ Shown([t EXCEPT !.connections = u]) = [s EXCEPT !.connections = u]
  BY <1>5, ConnectionsTables DEF s
<1>9. Dispatch(t, st, args) = Answer([t EXCEPT !.connections = u], res)
  <2>1. CASE ids = {}
    <3>1. [t EXCEPT !.connections = u] = t
      <4>1. u = t.connections
        BY <1>6, <2>1 DEF rows
      <4>2. QED
        BY <4>1 DEF Tables
    <3>2. res = IF st.what = "returning" THEN NoRow ELSE 0
      BY <2>1, SameOperators, FS_EmptySet DEF Sql!Only
    <3>3. QED
      BY <2>1, <3>1, <3>2
  <2>2. CASE ids # {}
    <3>1. Put(t, "connections", j, Over(new, rows[j])) = [t EXCEPT !.connections = u]
      BY <1>6, <2>2 DEF Put, More, rows
    <3>2. res = IF st.what = "returning" THEN Over(new, rows[j]) ELSE 1
      <4>1. ids = {j} /\ u[j] = Over(new, rows[j])
        BY <1>6, <2>2
      <4>2. Cardinality({j}) = 1
        BY FS_Singleton
      <4>3. Sql!Only(u, {j}) = u[j]
        BY DEF Sql!Only
      <4>4. QED
        BY <4>1, <4>2, <4>3
    <3> HIDE DEF res
    <3>3. QED
      BY <2>2, <3>1, <3>2 DEF rows
  <2>3. QED
    BY <2>1, <2>2
<1> HIDE DEF res
<1>10. QED
  BY <1>7, <1>8, <1>9, AlikeIs DEF s

\* The dictionary has a row for an id exactly when the id is in it.
LEMMA ConnectionFound ==
  ASSUME NEW t, Tables(t), NEW j
  PROVE  Get(t.connections, j) # NoRow <=> j \in DOMAIN t.connections
  BY ConnectionRow DEF Get

\* A PATCH is alike: the columns that are set have the parameters from the third on, and _conn_update
\* finds them there.
LEMMA PatchAlike ==
  ASSUME NEW t, Tables(t), NEW owner, NEW j, NEW set, NEW put, NEW args,
         DOMAIN set \subseteq {"label", "credentials_enc"}, put = <<>> \/ put = Untested,
         Len(args) \in Nat, 2 <= Len(args), \A c \in DOMAIN set : set[c] <= Len(args), args[1] = owner, args[2] = j
  PROVE  Alike(t, UpdateConnection(set, put), args)
<1> DEFINE st == UpdateConnection(set, put)
           rows == t.connections
           own == j \in DOMAIN rows /\ rows[j]["owner_key"] = owner
           ids == IF own THEN {j} \cap DOMAIN rows ELSE {}
           new == Over(Bound(set, args), put)
<1>1. /\ st.table = "connections" /\ st.verb = "update" /\ st.set = set /\ st.put = put
      /\ st.what = "returning" /\ st.among = <<>> /\ st.before = <<>>
  BY DEF UpdateConnection, On, Blank
<1>2. st.where = [owner_key |-> 1, id |-> 2]
  BY DEF UpdateConnection, On, Blank
<1>12. DOMAIN put \subseteq {"status", "last_tested_at"} /\ DOMAIN Resets = {"status", "last_tested_at"} /\ DOMAIN Untested = {"status", "last_tested_at"}
  BY DEF Untested, Resets
<1>13. Dispatch(t, st, args) = ConnUpdate(t, st, args)
  <2>1. DOMAIN put \subseteq DOMAIN Resets
    BY <1>12
  <2>2. QED
    BY <2>1, PatchDispatched
<1>14. st.text = {"update_connections", "returning_*"} \cup {Resets[c] : c \in DOMAIN put}
  BY DEF UpdateConnection, On, Blank
<1> HIDE DEF st
<1>15. "returning_*" \in st.text
  BY <1>14
<1>16. Reset(st) = put
  <2>1. \A c \in DOMAIN Untested : Resets[c] \in st.text <=> c \in DOMAIN put
    BY <1>12, <1>14 DEF Resets
  <2>2. {c \in DOMAIN Untested : Resets[c] \in st.text} = DOMAIN put
    BY <1>12, <2>1
  <2>3. put = [c \in DOMAIN put |-> Untested[c]]
    <3>1. CASE put = <<>>
      BY <3>1
    <3>2. CASE put = Untested
      BY <3>2 DEF Untested
    <3>3. QED
      BY <3>1, <3>2
  <2>4. QED
    BY <2>2, <2>3 DEF Reset
<1>3. DOMAIN new \subseteq ConnectionKeys \ {"id", "created_at"}
  BY <1>12 DEF ConnectionKeys, Over, Bound
<1>4. Sql!Chosen(Shown(t), st, args) = ids
  BY <1>1, <1>2, OwnChosen
<1>5. ASSUME NEW row, row = [c \in ConnectionKeys |-> row[c]]
      PROVE  /\ Over(Bound(set, args), Over(put, row)) = Over(new, row)
             /\ Over(put, Over(Bound(set, args), row)) = Over(new, row)
  <2> DEFINE b == Bound(set, args)
  <2>1. DOMAIN b \cap DOMAIN put = {}
    BY <1>12 DEF Bound
  <2> HIDE DEF b
  <2>2. Over(b, Over(put, row)) = Over(Over(b, put), row)
    BY DEF Over
  <2>3. Over(put, Over(b, row)) = Over(Over(b, put), row)
    BY <2>1 DEF Over
  <2>4. QED
    BY <2>2, <2>3 DEF b
<1>6. \A i \in DOMAIN rows : rows[i] = [c \in ConnectionKeys |-> rows[i][c]]
  BY ConnectionRow
<1>7. ASSUME NEW i \in DOMAIN rows PROVE Sql!Assigned(st, args, rows[i]) = Over(new, rows[i])
  <2> HIDE DEF new, rows
  <2>1. QED
    BY <1>1, <1>5, <1>6, SameOperators DEF Sql!Assigned
<1>8. Written(st, args, Len(args), {"owner_key", "id"}) = Bound(set, args)
  <2>1. Pairs(st) = Over([owner_key |-> 1, id |-> 2], set)
    BY <1>1, <1>2 DEF Pairs
  <2>2. {c \in DOMAIN Pairs(st) \ {"owner_key", "id"} : Pairs(st)[c] <= Len(args)} = DOMAIN set
    BY <2>1 DEF Over
  <2>3. \A c \in DOMAIN set : Pairs(st)[c] = set[c]
    BY <2>1 DEF Over
  <2>4. QED
    BY <2>2, <2>3 DEF Written, Bound
<1>9. Dispatch(t, st, args) =
        IF ids = {} THEN Answer(t, NoRow)
        ELSE Answer(Put(t, "connections", j, Over(new, rows[j])), Over(new, rows[j]))
  <2> DEFINE row == Get(rows, j)
             after == Over(put, Over(Bound(set, args), row))
  <2>1. ConnUpdate(t, st, args) =
          IF row # NoRow /\ row["owner_key"] = owner THEN Answer(Put(t, "connections", j, after), after) ELSE Answer(t, NoRow)
    <3> HIDE DEF row
    <3>1. QED
      BY <1>8, <1>15, <1>16 DEF ConnUpdate, row
  <2>2. row # NoRow /\ row["owner_key"] = owner <=> own
    BY ConnectionFound DEF Get
  <2>3. own => row = rows[j] /\ after = Over(new, rows[j])
    <3> SUFFICES ASSUME own PROVE row = rows[j] /\ after = Over(new, rows[j])
      OBVIOUS
    <3>1. row = rows[j] /\ row = [c \in ConnectionKeys |-> row[c]]
      BY <1>6 DEF Get
    <3> HIDE DEF row, new
    <3>2. QED
      BY <1>5, <3>1
  <2>4. ids = {} <=> ~own
    OBVIOUS
  <2> HIDE DEF row, after, own, ids, rows
  <2>5. QED
    BY <1>13, <2>1, <2>2, <2>3, <2>4
<1>10. ids = {j} \cap DOMAIN rows \/ ids = {}
  OBVIOUS
<1> HIDE DEF new, ids
<1>11. Alike(t, st, args)
  BY <1>1, <1>3, <1>4, <1>7, <1>9, <1>10, UpdateConnectionAlike
<1>17. QED
  BY <1>11 DEF st

\* update_connection_status's UPDATE, whose three parameters _conn_update takes by their places, is alike.
LEMMA TestedAlike ==
  ASSUME NEW t, Tables(t), NEW j, NEW status
  PROVE  Alike(t, SetTested, <<status, "then", j>>)
<1> DEFINE st == SetTested
           args == <<status, "then", j>>
           rows == t.connections
           ids == {j} \cap DOMAIN rows
           set == [status |-> 1, last_tested_at |-> 2]
           new == Bound(set, args)
<1>1. /\ st.table = "connections" /\ st.verb = "update" /\ st.set = set /\ st.put = <<>>
      /\ st.what = "*" /\ st.among = <<>> /\ st.before = <<>>
  BY DEF SetTested, On, Blank
<1>2. st.where = [id |-> 3]
  BY DEF SetTested, On, Blank
<1>3. args[1] = status /\ args[2] = "then" /\ args[3] = j
  OBVIOUS
<1>13. st.text = {"update_connections"} /\ Dispatch(t, st, args) = ConnUpdate(t, st, args)
  BY Dispatched DEF SetTested, On, Blank
<1> HIDE DEF st, args
<1>4. DOMAIN new = {"status", "last_tested_at"} /\ new["status"] = status /\ new["last_tested_at"] = "then"
  BY <1>3 DEF Bound
<1>5. DOMAIN new \subseteq ConnectionKeys \ {"id", "created_at"}
  BY <1>4 DEF ConnectionKeys
<1>6. Sql!Chosen(Shown(t), st, args) = ids
  <2>1. \A i \in DOMAIN rows : rows[i]["id"] = i
    BY ConnectionRow
  <2>2. QED
    BY <1>1, <1>2, <1>3, <2>1, ConnectionsChosen
<1>7. \A i \in DOMAIN rows : rows[i] = [c \in ConnectionKeys |-> rows[i][c]]
  BY ConnectionRow
<1> HIDE DEF set
<1>8. ASSUME NEW i \in DOMAIN rows PROVE Sql!Assigned(st, args, rows[i]) = Over(new, rows[i])
  <2>1. Over(<<>>, rows[i]) = rows[i]
    <3> DEFINE row == rows[i]
    <3>1. row = [c \in ConnectionKeys |-> row[c]]
      BY <1>7
    <3> HIDE DEF row
    <3>2. DOMAIN row = ConnectionKeys
      BY <3>1
    <3>3. Over(<<>>, row) = row
      BY <3>1, <3>2, OverNothing
    <3>4. QED
      BY <3>3 DEF row
  <2> HIDE DEF rows
  <2>2. QED
    BY <1>1, <2>1, SameOperators DEF Sql!Assigned
<1>9. Dispatch(t, st, args) =
        IF ids = {} THEN Answer(t, 0) ELSE Answer(Put(t, "connections", j, Over(new, rows[j])), 1)
  <2> DEFINE row == Get(rows, j)
             after == [row EXCEPT !.status = status, !.last_tested_at = "then"]
  <2>1. ConnUpdate(t, st, args) = IF row # NoRow THEN Answer(Put(t, "connections", j, after), 1) ELSE Answer(t, 0)
    <3> HIDE DEF row
    <3>1. QED
      BY <1>3, <1>13 DEF ConnUpdate, row
  <2>2. row # NoRow <=> j \in DOMAIN rows
    BY ConnectionFound
  <2>3. j \in DOMAIN rows => after = Over(new, rows[j])
    <3> SUFFICES ASSUME j \in DOMAIN rows PROVE after = Over(new, rows[j])
      OBVIOUS
    <3>1. row = rows[j] /\ row = [c \in ConnectionKeys |-> row[c]]
      BY <1>7 DEF Get
    <3>2. "status" \in ConnectionKeys /\ "last_tested_at" \in ConnectionKeys
      BY DEF ConnectionKeys
    <3> HIDE DEF row, new
    <3>3. after = [c \in ConnectionKeys |-> IF c = "status" THEN status ELSE IF c = "last_tested_at" THEN "then" ELSE row[c]]
      BY <3>1, <3>2
    <3>4. Over(new, row) = [c \in ConnectionKeys |-> IF c = "status" THEN status ELSE IF c = "last_tested_at" THEN "then" ELSE row[c]]
      BY <1>4, <3>1, <3>2 DEF Over
    <3>5. QED
      BY <3>1, <3>3, <3>4
  <2> HIDE DEF row, after, rows, new
  <2>4. QED
    BY <1>13, <2>1, <2>2, <2>3
<1>10. st.what # "returning"
  BY <1>1
<1> HIDE DEF new
<1>11. Alike(t, st, args)
  BY <1>1, <1>5, <1>6, <1>8, <1>9, <1>10, UpdateConnectionAlike
<1>12. QED
  BY <1>11 DEF st, args

\* delete_connection's DELETE is alike.
LEMMA DeleteAlike ==
  ASSUME NEW t, Tables(t), NEW j, NEW owner
  PROVE  Alike(t, DeleteConnection, <<j, owner>>)
<1> DEFINE st == DeleteConnection
           args == <<j, owner>>
           rows == t.connections
           own == j \in DOMAIN rows /\ rows[j]["owner_key"] = owner
           ids == IF own THEN {j} \cap DOMAIN rows ELSE {}
           rest == [i \in DOMAIN rows \ ids |-> rows[i]]
           d == [t EXCEPT !.connections = rest]
<1>1. /\ st.table = "connections" /\ st.verb = "delete" /\ st.where = [id |-> 1, owner_key |-> 2]
      /\ st.among = <<>> /\ st.before = <<>>
  BY DEF DeleteConnection, OwnConnection, On, Blank
<1>2. args[1] = j /\ args[2] = owner
  OBVIOUS
<1>0. Dispatch(t, st, args) = ConnDelete(t, args)
  BY Dispatched
<1> HIDE DEF st, args
<1>3. Sql!Chosen(Shown(t), st, args) = ids
  BY <1>1, <1>2, OwnChosen
<1>4. Rows(rows, ConnectionKeys, t.issued, t.now) /\ rows = [i \in DOMAIN rows |-> rows[i]]
  BY DEF Tables, Rows
<1>5. Rows(rest, ConnectionKeys, t.issued, t.now)
  <2>1. DOMAIN rest = DOMAIN rows \ ids /\ \A i \in DOMAIN rest : rest[i] = rows[i]
    OBVIOUS
  <2>2. rest = [i \in DOMAIN rest |-> rest[i]]
    OBVIOUS
  <2> HIDE DEF rest, rows, ids
  <2>3. QED
    BY <1>4, <2>1, <2>2 DEF Rows
<1>6. IF own THEN Cardinality(ids) = 1 ELSE Cardinality(ids) = 0 /\ rest = rows
  <2>1. CASE own
    <3>1. ids = {j}
      BY <2>1
    <3>2. QED
      BY <2>1, <3>1, FS_Singleton
  <2>2. CASE ~own
    <3>1. ids = {}
      BY <2>2
    <3> HIDE DEF ids, rows
    <3>2. rest = rows
      BY <1>4, <3>1
    <3>3. QED
      BY <2>2, <3>1, <3>2, FS_EmptySet
  <2>3. QED
    BY <2>1, <2>2
<1>7. Tables(d) /\ Shown(d) = [Shown(t) EXCEPT !.connections = rest]
  <2> HIDE DEF rest
  <2>1. QED
    BY <1>5, ConnectionsTables
<1>8. Dispatch(t, st, args) = Answer(d, Cardinality(ids))
  <2> DEFINE row == Get(rows, j)
  <2>1. Dispatch(t, st, args) = ConnDelete(t, args)
    BY <1>0
  <2>2. ConnDelete(t, args) = IF row # NoRow /\ row["owner_key"] = owner
                              THEN Answer([t EXCEPT !.connections = [i \in DOMAIN rows \ {j} |-> rows[i]]], 1) ELSE Answer(t, 0)
    <3> HIDE DEF row
    <3>1. QED
      BY <1>2 DEF ConnDelete, row
  <2>3. row # NoRow /\ row["owner_key"] = owner <=> own
    BY ConnectionFound DEF Get
  <2>4. own => rest = [i \in DOMAIN rows \ {j} |-> rows[i]]
    OBVIOUS
  <2>5. ~own => d = t
    <3> SUFFICES ASSUME ~own PROVE d = t
      OBVIOUS
    <3>1. rest = t.connections
      BY <1>6
    <3> HIDE DEF rest
    <3>2. QED
      BY <3>1 DEF Tables
  <2> HIDE DEF row, own, rest, ids, rows
  <2>6. QED
    BY <1>6, <2>1, <2>2, <2>3, <2>4, <2>5
<1>9. SqlExec(Shown(t), st, args) = Answer(Shown(d), Cardinality(ids))
  <2>1. Shown(t)[st.table] = rows
    BY <1>1, ConnectionsChosen
  <2>2. Sql!Sql(Shown(t), st, args) = Sql!SqlDelete(Shown(t), st, args)
    BY <1>1 DEF Sql!Sql
  <2> HIDE DEF ids, rows, d
  <2>3. Sql!SqlDelete(Shown(t), st, args) = Answer([Shown(t) EXCEPT ![st.table] = rest], Cardinality(ids))
    BY <1>3, <2>1, SameOperators, SameCardinality DEF Sql!SqlDelete
  <2> HIDE DEF rest
  <2>4. st.table = "connections"
    BY <1>1
  <2>5. QED
    BY <1>7, <2>2, <2>3, <2>4 DEF SqlExec
<1> HIDE DEF ids, d
<1>10. QED
  BY <1>7, <1>8, <1>9, AlikeIs DEF st, args

-----------------------------------------------------------------------------
\* The handlers of the job routes.

\* Both kinds of handler send the same statements on jobs.
LEMMA JobStatements ==
  /\ Demo!ById("export_jobs") = ById("export_jobs") /\ Database!ById("export_jobs") = ById("export_jobs")
  /\ Demo!ById("connections") = ById("connections") /\ Database!ById("connections") = ById("connections")
  /\ Demo!StatusOf = StatusOf /\ Database!StatusOf = StatusOf
  /\ Demo!CancelActive = CancelActive /\ Database!CancelActive = CancelActive
  /\ \A s, c : Demo!Expire(s, c) = Expire(s, c) /\ Database!Expire(s, c) = Expire(s, c)
  /\ Demo!CountActive = CountActive /\ Database!CountActive = CountActive
  /\ \A w : Demo!ListJobs(w) = ListJobs(w) /\ Database!ListJobs(w) = ListJobs(w)
  /\ \A w : Demo!CountJobs(w) = CountJobs(w) /\ Database!CountJobs(w) = CountJobs(w)
<1>1. Demo!Blank = Blank /\ Database!Blank = Blank
  BY DEF Blank, Demo!Blank, Database!Blank
<1>2. /\ \A n : Demo!On(n) = On(n) /\ Database!On(n) = On(n)
      /\ \A n : Demo!ById(n) = ById(n) /\ Database!ById(n) = ById(n)
      /\ Demo!Unfinished = Unfinished /\ Database!Unfinished = Unfinished
      /\ \A s, n : Demo!UpdateJob(s, n) = UpdateJob(s, n) /\ Database!UpdateJob(s, n) = UpdateJob(s, n)
  BY <1>1 DEF On, Demo!On, Database!On, ById, Demo!ById, Database!ById, Unfinished, Demo!Unfinished, Database!Unfinished,
     UpdateJob, Demo!UpdateJob, Database!UpdateJob, From, Demo!From, Database!From
<1>3. Demo!StatusOf = StatusOf /\ Database!StatusOf = StatusOf
  BY <1>2 DEF StatusOf, Demo!StatusOf, Database!StatusOf
<1>4. Demo!CancelActive = CancelActive /\ Database!CancelActive = CancelActive
  BY <1>2 DEF CancelActive, Demo!CancelActive, Database!CancelActive
<1>5. \A s, c : Demo!Expire(s, c) = Expire(s, c) /\ Database!Expire(s, c) = Expire(s, c)
  BY <1>1 DEF Expire, Demo!Expire, Database!Expire, Equals, Demo!Equals, Database!Equals
<1>6. Demo!CountActive = CountActive /\ Database!CountActive = CountActive
  BY <1>1, <1>2 DEF CountActive, Demo!CountActive, Database!CountActive
<1>7. \A w : /\ Demo!ListJobs(w) = ListJobs(w) /\ Database!ListJobs(w) = ListJobs(w)
             /\ Demo!CountJobs(w) = CountJobs(w) /\ Database!CountJobs(w) = CountJobs(w)
  BY <1>1 DEF ListJobs, Demo!ListJobs, Database!ListJobs, CountJobs, Demo!CountJobs, Database!CountJobs
<1>8. QED
  BY <1>2, <1>3, <1>4, <1>5, <1>6, <1>7

\* Both kinds of handler send the same updates from a job's task.
LEMMA TaskStatements ==
  /\ Demo!SetRunning = SetRunning /\ Database!SetRunning = SetRunning
  /\ Demo!SetFinished = SetFinished /\ Database!SetFinished = SetFinished
  /\ Demo!SetProgress = SetProgress /\ Database!SetProgress = SetProgress
  /\ Demo!SetTotal = SetTotal /\ Database!SetTotal = SetTotal
  /\ Demo!SetExternal = SetExternal /\ Database!SetExternal = SetExternal
<1>1. Demo!Blank = Blank /\ Database!Blank = Blank
  BY DEF Blank, Demo!Blank, Database!Blank
<1>2. \A s, n : Demo!UpdateJob(s, n) = UpdateJob(s, n) /\ Database!UpdateJob(s, n) = UpdateJob(s, n)
  BY <1>1 DEF UpdateJob, Demo!UpdateJob, Database!UpdateJob
<1>3. QED
  BY <1>2 DEF SetRunning, Demo!SetRunning, Database!SetRunning, SetFinished, Demo!SetFinished, Database!SetFinished,
     SetProgress, Demo!SetProgress, Database!SetProgress, SetTotal, Demo!SetTotal, Database!SetTotal,
     SetExternal, Demo!SetExternal, Database!SetExternal

\* Both kinds of handler send the same statements on connections.
LEMMA ConnectionStatements ==
  /\ Demo!OwnConnection = OwnConnection /\ Database!OwnConnection = OwnConnection
  /\ Demo!OwnConnections = OwnConnections /\ Database!OwnConnections = OwnConnections
  /\ Demo!CountReferencing = CountReferencing /\ Database!CountReferencing = CountReferencing
  /\ \A s, p : Demo!UpdateConnection(s, p) = UpdateConnection(s, p) /\ Database!UpdateConnection(s, p) = UpdateConnection(s, p)
  /\ Demo!SetTested = SetTested /\ Database!SetTested = SetTested
  /\ Demo!DeleteConnection = DeleteConnection /\ Database!DeleteConnection = DeleteConnection
<1>1. Demo!Blank = Blank /\ Database!Blank = Blank
  BY DEF Blank, Demo!Blank, Database!Blank
<1>2. \A n : Demo!On(n) = On(n) /\ Database!On(n) = On(n)
  BY <1>1 DEF On, Demo!On, Database!On
<1>3. Demo!OwnConnection = OwnConnection /\ Database!OwnConnection = OwnConnection
  BY <1>2 DEF OwnConnection, Demo!OwnConnection, Database!OwnConnection
<1>4. \A s, p : Demo!UpdateConnection(s, p) = UpdateConnection(s, p) /\ Database!UpdateConnection(s, p) = UpdateConnection(s, p)
  BY <1>2 DEF UpdateConnection, Demo!UpdateConnection, Database!UpdateConnection, Resets, Demo!Resets, Database!Resets
<1>5. QED
  BY <1>2, <1>3, <1>4 DEF OwnConnections, Demo!OwnConnections, Database!OwnConnections,
     CountReferencing, Demo!CountReferencing, Database!CountReferencing, SetTested, Demo!SetTested, Database!SetTested,
     DeleteConnection, Demo!DeleteConnection, Database!DeleteConnection

\* What a handler does with the dictionaries and with the database is the same.
Same(demo, sql) == Tables(demo.db) /\ sql.db = Shown(demo.db) /\ sql.res = demo.res

\* The parts of an answer.
LEMMA AnswerIs == \A d, r : Answer(d, r).db = d /\ Answer(d, r).res = r
  BY DEF Answer

\* The same status code from the same tables is the same answer.
LEMMA SameStatus ==
  ASSUME NEW t, Tables(t), NEW code
  PROVE  Same(Demo!Status(t, code), Database!Status(Shown(t), code))
<1>1. Demo!Status(t, code) = Answer(t, [code |-> code]) /\ Database!Status(Shown(t), code) = Answer(Shown(t), [code |-> code])
  BY SameOperators
<1>2. QED
  BY <1>1, AnswerIs DEF Same

\* count_active_jobs_for_org's SELECT is alike.
LEMMA CountActiveAlike ==
  ASSUME NEW t, Tables(t), NEW org
  PROVE  Alike(t, CountActive, <<org>>)
<1> DEFINE st == CountActive
<1>1. st.table = "export_jobs" /\ st.verb = "select" /\ st.what = "count" /\ st.set = <<>> /\ st.before = <<>> /\ st.among = Unfinished
  BY DEF CountActive, Blank
<1>2. st.where = [org_id |-> 1]
  BY DEF CountActive, Blank
<1>0. /\ st.text = {"from_export_jobs", "count(*)", "status_in_('pending'_'running')"}
      /\ Dispatch(t, st, <<org>>) = JobSelect(t, st, <<org>>)
  BY Dispatched DEF CountActive, Blank
<1> HIDE DEF st
<1>3. Len(<<org>>) = 1
  OBVIOUS
<1>4. DOMAIN st.where \subseteq JobKeys /\ \A c \in DOMAIN st.where : st.where[c] <= 1
  BY <1>2 DEF JobKeys
<1>5. Alike(t, st, <<org>>)
  BY <1>0, <1>1, <1>3, <1>4, CountAlike
<1>6. QED
  BY <1>5 DEF st

\* The expiries and the count after them, each on the tables that the one before it left.
LEMMA CountActiveJobsSame ==
  ASSUME NEW t, Tables(t), NEW org
  PROVE  Same(Demo!CountActiveJobsForOrg(t, org), Database!CountActiveJobsForOrg(Shown(t), org))
<1> DEFINE args == <<org, t.now - StaleTimeout>>
           d1 == Dispatch(t, Expire("running", "last_heartbeat_at"), args)
           d2 == Dispatch(d1.db, Expire("pending", "created_at"), args)
           d3 == Dispatch(d2.db, CountActive, <<org>>)
           s1 == SqlExec(Shown(t), Expire("running", "last_heartbeat_at"), args)
           s2 == SqlExec(s1.db, Expire("pending", "created_at"), args)
           s3 == SqlExec(s2.db, CountActive, <<org>>)
<1>1. Shown(t).now = t.now
  BY ShownIs
<1>2. Demo!CountActiveJobsForOrg(t, org) = d3 /\ Database!CountActiveJobsForOrg(Shown(t), org) = s3
  BY <1>1, JobStatements DEF Demo!CountActiveJobsForOrg, Database!CountActiveJobsForOrg
<1>3. Tables(d1.db) /\ s1.db = Shown(d1.db)
  BY ExpireAlike DEF Alike
<1> HIDE DEF d1, s1
<1>4. Tables(d2.db) /\ s2.db = Shown(d2.db)
  BY <1>3, ExpireAlike DEF Alike
<1> HIDE DEF d2, s2
<1>5. Tables(d3.db) /\ s3.db = Shown(d3.db) /\ s3.res = d3.res
  BY <1>4, CountActiveAlike DEF Alike
<1> HIDE DEF d3, s3
<1>6. QED
  BY <1>2, <1>5 DEF Same

\* What the absent column counts as.
LEMMA NotExtracted == Demo!Absent["field_extraction"] = FALSE
  BY Zenon DEF Demo!Absent

\* Two submissions that differ in the field extraction at most, which the second does not ask for.
Forgets(data, plain) ==
  /\ plain.source = data.source /\ plain.sink = data.sink /\ plain.dest = data.dest /\ plain.resolve = data.resolve
  /\ plain.asink = data.asink /\ plain.adest = data.adest /\ plain.hook = data.hook
  /\ plain.extract = Demo!Absent["field_extraction"]

\* _job_insert reads no parameter after the ninth.
LEMMA InsertForgets ==
  ASSUME NEW t, NEW a, NEW b, \A n \in 1..9 : a[n] = b[n]
  PROVE  Dispatch(t, InsertJob, a) = Dispatch(t, InsertJob, b)
<1>1. \A x : Dispatch(t, InsertJob, x) = JobInsert(t, x)
  BY Dispatched
<1>2. \A x : JobInsert(t, x)
              = Answer([Put(t, "export_jobs", t.issued + 1, NewJob(t, x)) EXCEPT !.issued = t.issued + 1, !.now = @ + 1],
                       NewJob(t, x))
  BY DEF JobInsert, NewJob
<1>3. NewJob(t, a) = NewJob(t, b)
  <2>1. /\ a[1] = b[1] /\ a[2] = b[2] /\ a[3] = b[3] /\ a[4] = b[4] /\ a[5] = b[5]
        /\ a[6] = b[6] /\ a[7] = b[7] /\ a[8] = b[8] /\ a[9] = b[9]
    OBVIOUS
  <2>2. QED
    BY <2>1 DEF NewJob
<1>4. QED
  BY <1>1, <1>2, <1>3

\* insert_export_job fills in the same settings, and both new rows are the same response.
LEMMA InsertSame ==
  ASSUME NEW t, Tables(t), NEW data, NEW plain, Forgets(data, plain), NEW caller
  PROVE  LET demo == Demo!InsertExportJob(t, data, caller)
             sql == Database!InsertExportJob(Shown(t), plain, caller)
         IN  /\ Tables(demo.db) /\ sql.db = Shown(demo.db)
             /\ demo.res # NoRow /\ sql.res = Demo!Response(demo.res)
<1> DEFINE dataset == IF data.adest # NULL THEN data.adest ELSE <<data.dest, "assets">>
           sink == IF data.asink # NULL THEN data.asink ELSE data.sink
           assets == IF data.resolve THEN <<sink, dataset>> ELSE <<NULL, NULL>>
           given == <<caller.org, caller.user, data.source, data.sink, data.dest, data.resolve,
                      assets[1], assets[2], data.hook, data.extract>>
           args == <<caller.org, caller.user, data.source, data.sink, data.dest, data.resolve,
                     assets[1], assets[2], data.hook, plain.extract>>
           demo == Demo!InsertExportJob(t, data, caller)
           sql == Database!InsertExportJob(Shown(t), plain, caller)
<1>1. args[10] = Demo!Absent["field_extraction"] /\ \A n \in 1..9 : given[n] = args[n]
  BY DEF Forgets
<1>2. demo = Dispatch(t, InsertJob, args) /\ sql = SqlExec(Shown(t), InsertJob, args)
  <2>1. demo = Dispatch(t, InsertJob, given)
    BY SameStatements DEF Demo!InsertExportJob
  <2>2. sql = SqlExec(Shown(t), InsertJob, args)
    BY SameStatements DEF Database!InsertExportJob, Forgets
  <2> HIDE DEF given, args, demo, sql
  <2>3. QED
    BY <1>1, <2>1, <2>2, InsertForgets
<1> HIDE DEF args, demo, sql
<1>3. AlikeRow(t, InsertJob, args) /\ Dispatch(t, InsertJob, args).res # NoRow
  BY <1>1, InsertJobAlike
<1>4. QED
  BY <1>2, <1>3 DEF AlikeRow, Lift, demo, sql

\* create_export_job admits or refuses alike.
LEMMA AdmitSame ==
  ASSUME NEW t, Tables(t), NEW data, NEW plain, Forgets(data, plain), NEW caller
  PROVE  Same(Demo!Admit(t, data, caller), Database!Admit(Shown(t), plain, caller))
<1> DEFINE da == Demo!CountActiveJobsForOrg(t, caller.org)
           sa == Database!CountActiveJobsForOrg(Shown(t), caller.org)
           di == Demo!InsertExportJob(da.db, data, caller)
           si == Database!InsertExportJob(sa.db, plain, caller)
<1>1. Tables(da.db) /\ sa.db = Shown(da.db) /\ sa.res = da.res
  BY CountActiveJobsSame DEF Same
<1>2. Demo!Admit(t, data, caller) = IF Demo!Full(da.res) THEN Demo!Status(da.db, "429") ELSE [di EXCEPT !.res = Demo!Response(@)]
  BY DEF Demo!Admit
<1>3. Database!Admit(Shown(t), plain, caller) = IF Database!Full(sa.res) THEN Database!Status(sa.db, "429") ELSE [si EXCEPT !.res = Database!Response(@)]
  BY DEF Database!Admit
<1> HIDE DEF da, sa
<1>4. CASE Demo!Full(da.res)
  <2>1. Database!Full(sa.res)
    BY <1>1, <1>4 DEF Demo!Full, Database!Full
  <2>2. Same(Demo!Status(da.db, "429"), Database!Status(sa.db, "429"))
    BY <1>1, SameStatus
  <2>3. QED
    BY <1>2, <1>3, <1>4, <2>1, <2>2
<1>5. CASE ~Demo!Full(da.res)
  <2>1. ~Database!Full(sa.res)
    BY <1>1, <1>5 DEF Demo!Full, Database!Full
  <2>2. Tables(di.db) /\ si.db = Shown(di.db) /\ si.res = Demo!Response(di.res)
    BY <1>1, InsertSame
  <2>3. \A d, r : [Answer(d, r) EXCEPT !.res = Demo!Response(@)] = Answer(d, Demo!Response(r))
    BY DEF Answer
  <2>4. di = Answer(di.db, di.res) /\ si = Answer(si.db, si.res)
    <3>1. ASSUME NEW d, NEW x, NEW c PROVE Demo!InsertExportJob(d, x, c) = Answer(Demo!InsertExportJob(d, x, c).db, Demo!InsertExportJob(d, x, c).res)
      BY Inserted
    <3>2. ASSUME NEW d, NEW x, NEW c PROVE Database!InsertExportJob(d, x, c) = Answer(Database!InsertExportJob(d, x, c).db, Database!InsertExportJob(d, x, c).res)
      BY SameStatements DEF Database!InsertExportJob, SqlExec, Sql!Sql, Sql!SqlInsert, InsertJob, Blank, Sql!Answer, Answer
    <3>3. QED
      BY <3>1, <3>2
  <2> HIDE DEF di, si
  <2>5. [di EXCEPT !.res = Demo!Response(@)] = Answer(di.db, Demo!Response(di.res))
    BY <2>4 DEF Answer
  <2>6. [si EXCEPT !.res = Database!Response(@)] = Answer(si.db, Demo!Response(si.res))
    BY <2>4, SameOperators DEF Answer
  <2>7. Demo!Response(si.res) = Demo!Response(di.res)
    BY <2>2, ResponseIs
  <2> DEFINE demo == Demo!Admit(t, data, caller)
             sql == Database!Admit(Shown(t), plain, caller)
             res == Demo!Response(di.res)
  <2> HIDE DEF demo, sql, res
  <2>8. demo = Answer(di.db, res)
    BY <1>2, <1>5, <2>5 DEF demo, res
  <2>9. sql = Answer(si.db, res)
    BY <1>3, <2>1, <2>6, <2>7 DEF sql, res
  <2>10. Same(demo, sql)
    BY <2>2, <2>8, <2>9, AnswerIs DEF Same
  <2>11. QED
    BY <2>10 DEF demo, sql
<1>6. QED
  BY <1>4, <1>5

\* A caller sees the same rows with a column more.
LEMMA CanSeeSame ==
  ASSUME NEW caller, NEW row, DOMAIN row = JobKeys
  PROVE  /\ Database!CanSee(caller, Demo!Response(row)) <=> Demo!CanSee(caller, row)
         /\ Demo!Response(row) # NoRow
<1>1. "org_id" \in JobKeys /\ "user_id" \in JobKeys
  BY DEF JobKeys
<1>2. Demo!Response(row)["org_id"] = row["org_id"] /\ Demo!Response(row)["user_id"] = row["user_id"]
  BY <1>1, ResponseIs
<1>3. "field_extraction" \in DOMAIN Demo!Response(row) /\ "field_extraction" \notin DOMAIN NoRow
  BY ResponseIs DEF NoRow
<1>4. QED
  BY <1>2, <1>3 DEF Database!CanSee, Demo!CanSee

\* The row that get_export_job finds has the columns of a job.
LEMMA GetRow ==
  ASSUME NEW t, Tables(t), NEW j
  PROVE  Get(t.export_jobs, j) = NoRow \/ (DOMAIN Get(t.export_jobs, j) = JobKeys /\ Get(t.export_jobs, j) # NoRow)
<1>1. Rows(t.export_jobs, JobKeys, t.issued, t.now) /\ "id" \in JobKeys
  BY DEF Tables, JobKeys
<1>2. CASE j \in DOMAIN t.export_jobs
  BY <1>1, <1>2, RowIs DEF Get
<1>3. CASE j \notin DOMAIN t.export_jobs
  <2>1. Get(t.export_jobs, j) = NoRow
    BY <1>3 DEF Get
  <2>2. QED
    BY <2>1
<1>4. QED
  BY <1>2, <1>3

\* get_export_job shows the caller the same.
LEMMA GetSame ==
  ASSUME NEW t, Tables(t), NEW caller, NEW j
  PROVE  Database!GetExportJob(Shown(t), caller, j) = Demo!GetExportJob(t, caller, j)
<1> DEFINE row == Get(t.export_jobs, j)
<1>1. Dispatch(t, Demo!ById("export_jobs"), <<j>>).res = row /\ SqlExec(Shown(t), Database!ById("export_jobs"), <<j>>).res = Lift(row)
  BY ByIdIs, JobStatements, AnswerIs
<1>2. row = NoRow \/ (DOMAIN row = JobKeys /\ row # NoRow)
  BY GetRow
<1> HIDE DEF row
<1>3. Demo!GetExportJob(t, caller, j) = IF row # NoRow /\ Demo!CanSee(caller, row) THEN Demo!Response(row) ELSE NoRow
  BY <1>1, SameOperators DEF Demo!GetExportJob
<1>4. Database!GetExportJob(Shown(t), caller, j) = IF Lift(row) # NoRow /\ Database!CanSee(caller, Lift(row)) THEN Demo!Response(Lift(row)) ELSE NoRow
  BY <1>1, SameOperators DEF Database!GetExportJob
<1>5. CASE row = NoRow
  BY <1>3, <1>4, <1>5 DEF Lift
<1>6. CASE DOMAIN row = JobKeys /\ row # NoRow
  BY <1>3, <1>4, <1>6, CanSeeSame, ResponseIs DEF Lift
<1>7. QED
  BY <1>2, <1>5, <1>6

\* retry_export_job copies the same settings, or refuses alike.
LEMMA RetrySame ==
  ASSUME NEW t, Tables(t), NEW caller, NEW j
  PROVE  Same(Demo!RetryExportJob(t, caller, j), Database!RetryExportJob(Shown(t), caller, j))
<1> DEFINE row == Demo!GetExportJob(t, caller, j)
<1>1. Database!GetExportJob(Shown(t), caller, j) = row
  BY GetSame
<1> DEFINE demo == Demo!RetryExportJob(t, caller, j)
           sql == Database!RetryExportJob(Shown(t), caller, j)
<1>2. demo = IF row = NoRow THEN Demo!Status(t, "404") ELSE IF row.status # "failed" THEN Demo!Status(t, "400")
             ELSE Demo!Admit(t, Demo!Copied(row), caller)
  BY SameOperators DEF Demo!RetryExportJob
<1>3. sql = IF row = NoRow THEN Database!Status(Shown(t), "404") ELSE IF row.status # "failed" THEN Database!Status(Shown(t), "400")
            ELSE Database!Admit(Shown(t), Database!Copied(row), caller)
  BY <1>1, SameOperators DEF Database!RetryExportJob
<1>4. Database!Copied(row) = Demo!Copied(row)
  BY Zenon DEF Database!Copied, Demo!Copied
<1>5. Forgets(Demo!Copied(row), Demo!Copied(row))
  <2>1. Demo!Copied(row).extract = Demo!Absent["field_extraction"]
    BY NotExtracted, Zenon DEF Demo!Copied
  <2>2. QED
    BY <2>1 DEF Forgets
<1> HIDE DEF row, demo, sql
<1>6. Same(Demo!Admit(t, Demo!Copied(row), caller), Database!Admit(Shown(t), Demo!Copied(row), caller))
  BY <1>5, AdmitSame
<1>7. QED
  BY <1>2, <1>3, <1>4, <1>6, SameStatus DEF demo, sql

\* cancel_export_job updates alike, or refuses alike.
LEMMA CancelSame ==
  ASSUME NEW t, Tables(t), NEW caller, NEW j
  PROVE  Same(Demo!CancelExportJob(t, caller, j), Database!CancelExportJob(Shown(t), caller, j))
<1> DEFINE row == Get(t.export_jobs, j)
           may(r) == \/ caller.role = "super_admin"
                     \/ r.org_id = caller.org /\ (caller.role = "org_admin" \/ r.user_id = caller.user)
           du == Dispatch(t, CancelActive, <<j>>)
           su == SqlExec(Shown(t), CancelActive, <<j>>)
           ok(r, u) == r # NoRow /\ may(r) /\ r.status \in {"pending", "running"} /\ u.res = 1
           code == IF Demo!GetExportJob(t, caller, j) = NoRow THEN "404" ELSE "409"
<1>1. Dispatch(t, Demo!ById("export_jobs"), <<j>>).res = row /\ SqlExec(Shown(t), Database!ById("export_jobs"), <<j>>).res = Lift(row)
  BY ByIdIs, JobStatements, AnswerIs
<1>2. row = NoRow \/ (DOMAIN row = JobKeys /\ row # NoRow)
  BY GetRow
<1>3. Tables(du.db) /\ su.db = Shown(du.db) /\ su.res = du.res
  BY CancelAlike DEF Alike
<1> HIDE DEF row, du, su
<1>4. Demo!CancelExportJob(t, caller, j) = IF ok(row, du) THEN Demo!Status(du.db, "204") ELSE Demo!Status(t, code)
  BY <1>1, SameOperators, JobStatements DEF Demo!CancelExportJob, du
<1>5. Database!CancelExportJob(Shown(t), caller, j) = IF ok(Lift(row), su) THEN Database!Status(su.db, "204") ELSE Database!Status(Shown(t), code)
  BY <1>1, SameOperators, JobStatements, GetSame DEF Database!CancelExportJob, su
<1>6. ok(Lift(row), su) <=> ok(row, du)
  <2>1. CASE row = NoRow
    BY <2>1 DEF Lift
  <2>2. CASE DOMAIN row = JobKeys /\ row # NoRow
    <3>1. {"org_id", "user_id", "status"} \subseteq JobKeys
      BY DEF JobKeys
    <3>2. Lift(row) # NoRow /\ Lift(row)["org_id"] = row["org_id"] /\ Lift(row)["user_id"] = row["user_id"] /\ Lift(row)["status"] = row["status"]
      BY <2>2, <3>1, CanSeeSame, ResponseIs DEF Lift
    <3>3. QED
      BY <1>3, <2>2, <3>2
  <2>3. QED
    BY <1>2, <2>1, <2>2
<1>7. Same(Demo!Status(du.db, "204"), Database!Status(su.db, "204"))
  BY <1>3, SameStatus
<1> HIDE DEF ok, code
<1>8. Same(Demo!Status(t, code), Database!Status(Shown(t), code))
  BY SameStatus
<1>9. QED
  BY <1>4, <1>5, <1>6, <1>7, <1>8

-----------------------------------------------------------------------------
\* The handlers of lists and of connections.

\* The last two parameters of a list, its limit and offset.
LEMMA Joined ==
  ASSUME NEW S, NEW a \in Seq(S), NEW p \in S, NEW q \in S
  PROVE  LET b == a \o <<p, q>>
         IN  Len(b) = Len(a) + 2 /\ b[Len(b) - 1] = p /\ b[Len(b)] = q
<1>1. <<p, q>> \in Seq(S) /\ Len(<<p, q>>) = 2 /\ <<p, q>>[1] = p /\ <<p, q>>[2] = q
  OBVIOUS
<1> DEFINE z == <<p, q>>
<1> HIDE DEF z
<1>2. z \in Seq(S) /\ Len(z) = 2 /\ z[1] = p /\ z[2] = q
  BY <1>1 DEF z
<1>3. Len(a \o z) = Len(a) + 2 /\ (a \o z)[Len(a) + 1] = p /\ (a \o z)[Len(a) + 2] = q
  <2>1. /\ Len(a \o z) = Len(a) + Len(z)
        /\ \A i \in 1..(Len(a) + Len(z)) : (a \o z)[i] = IF i <= Len(a) THEN a[i] ELSE z[i - Len(a)]
    BY <1>2, ConcatProperties
  <2>2. Len(a) \in Nat
    OBVIOUS
  <2>3. (a \o z)[Len(a) + 1] = z[1] /\ (a \o z)[Len(a) + 2] = z[2]
    BY <1>2, <2>1, <2>2
  <2>4. QED
    BY <1>2, <2>1, <2>3
<1>4. Len(a \o z) - 1 = Len(a) + 1
  BY <1>3
<1>5. QED
  BY <1>3, <1>4 DEF z

\* list_export_jobs numbers its conditions so that _job_list finds their parameters and the page's.
LEMMA ListSame ==
  ASSUME NEW t, Tables(t), NEW caller, NEW page \in Nat \ {0}, NEW status
  PROVE  Same(Demo!ListExportJobs(t, caller, page, status), Database!ListExportJobs(Shown(t), caller, page, status))
<1> DEFINE org == IF caller.role = "super_admin" THEN <<>> ELSE <<caller.org>>
           filter == IF status = NULL THEN <<>> ELSE <<status>>
           args == org \o filter
           offset == (page - 1) * PageSize
           all == args \o <<PageSize, offset>>
           where == Over(IF org = <<>> THEN <<>> ELSE [org_id |-> 1], IF status = NULL THEN <<>> ELSE [status |-> Len(args)])
           S == {caller.org, status, PageSize, offset}
           di == Dispatch(t, ListJobs(where), all).res
           si == SqlExec(Shown(t), ListJobs(where), all).res
           dn == Dispatch(t, CountJobs(where), args).res
           sn == SqlExec(Shown(t), CountJobs(where), args).res
<1>1. Demo!ListExportJobs(t, caller, page, status) = Answer(t, [items |-> [n \in DOMAIN di |-> Demo!Response(di[n])], total |-> dn])
  BY JobStatements, SameOperators DEF Demo!ListExportJobs
<1>2. Database!ListExportJobs(Shown(t), caller, page, status)
        = Answer(Shown(t), [items |-> [n \in DOMAIN si |-> Demo!Response(si[n])], total |-> sn])
  BY JobStatements, SameOperators DEF Database!ListExportJobs
<1>3. org \in Seq(S) /\ filter \in Seq(S) /\ Len(org) \in {0, 1} /\ Len(filter) \in {0, 1}
  <2>1. <<>> \in Seq(S) /\ Len(<<>>) = 0
    OBVIOUS
  <2>2. \A x \in S : <<x>> \in Seq(S) /\ Len(<<x>>) = 1
    OBVIOUS
  <2>3. caller.org \in S /\ status \in S
    OBVIOUS
  <2> HIDE DEF S
  <2>4. QED
    BY <2>1, <2>2, <2>3
<1>4. PageSize \in Nat /\ offset \in Nat
  <2>1. PageSize \in Nat /\ page - 1 \in Nat
    BY DemoAssumption
  <2>2. \A a, b \in Nat : a * b \in Nat
    OBVIOUS
  <2>3. QED
    BY <2>1, <2>2
<1>5. /\ args \in Seq(S) /\ Len(args) = Len(org) + Len(filter) /\ Len(args) \in Nat
      /\ (org # <<>> => 1 <= Len(args)) /\ PageSize \in S /\ offset \in S
  <2>1. org # <<>> => Len(org) = 1
    OBVIOUS
  <2>2. PageSize \in S /\ offset \in S
    OBVIOUS
  <2> HIDE DEF org, filter, S
  <2>3. QED
    BY <1>3, <2>1, <2>2
<1>6. DOMAIN where \subseteq JobKeys \ {"id"} /\ \A c \in DOMAIN where : where[c] <= Len(args)
  <2>1. "org_id" \in JobKeys \ {"id"} /\ "status" \in JobKeys \ {"id"}
    BY DEF JobKeys
  <2> HIDE DEF args, org
  <2>2. DOMAIN where \subseteq {"org_id", "status"}
    BY DEF Over
  <2>3. \A c \in DOMAIN where : where[c] <= Len(args)
    BY <1>5 DEF Over
  <2>4. QED
    BY <2>1, <2>2, <2>3
<1> HIDE DEF where, args, S, org, filter, offset
<1>7. Len(all) = Len(args) + 2 /\ all[Len(all) - 1] = PageSize /\ all[Len(all)] = offset
  BY <1>5, Joined
<1> HIDE DEF all
<1>8. DOMAIN si = DOMAIN di /\ \A k \in DOMAIN di : si[k] = Demo!Response(di[k])
  <2>1. Len(all) \in Nat /\ Len(all) - 2 = Len(args)
    BY <1>5, <1>7
  <2>2. \A c \in DOMAIN where : where[c] <= Len(all) - 2
    BY <1>6, <2>1
  <2>3. all[Len(all) - 1] \in Nat /\ all[Len(all)] \in Nat
    BY <1>4, <1>7
  <2>4. DOMAIN where \subseteq JobKeys \ {"id"}
    BY <1>6
  <2>5. QED
    BY <2>1, <2>2, <2>3, <2>4, ListAlike
<1>9. dn = sn
  <2> DEFINE st == CountJobs(where)
  <2>1. st.table = "export_jobs" /\ st.verb = "select" /\ st.what = "count" /\ st.set = <<>> /\ st.before = <<>> /\ st.among = <<>>
    BY DEF CountJobs, Blank
  <2>2. st.where = where
    BY DEF CountJobs, Blank
  <2>5. st.text = {"from_export_jobs", "count(*)"}
    BY DEF CountJobs, Blank
  <2>6. Dispatch(t, st, args) = JobSelect(t, st, args)
    BY Dispatched
  <2> HIDE DEF st
  <2>3. Alike(t, st, args)
    BY <1>5, <1>6, <2>1, <2>2, <2>5, <2>6, CountAlike
  <2>4. QED
    BY <2>3 DEF Alike, st
<1> HIDE DEF di, si, dn, sn
<1>10. [n \in DOMAIN si |-> Demo!Response(si[n])] = [n \in DOMAIN di |-> Demo!Response(di[n])]
  BY <1>8, ResponseIs
<1>11. QED
  BY <1>1, <1>2, <1>9, <1>10, AnswerIs DEF Same

\* update_connection numbers the columns it sets so that _conn_update finds their parameters.
LEMMA PatchSame ==
  ASSUME NEW t, Tables(t), NEW owner, NEW j, NEW label, NEW creds
  PROVE  Same(Demo!PatchConnection(t, owner, j, label, creds), Database!PatchConnection(Shown(t), owner, j, label, creds))
<1> DEFINE a == <<owner, j>>
           b == IF label = NULL THEN <<>> ELSE <<label>>
           c == IF creds = NULL THEN <<>> ELSE <<creds>>
           args == a \o b \o c
           set == Over(IF label = NULL THEN <<>> ELSE [label |-> 3], IF creds = NULL THEN <<>> ELSE [credentials_enc |-> Len(args)])
           put == IF creds = NULL THEN <<>> ELSE [status |-> "untested", last_tested_at |-> NULL]
           S == {owner, j, label, creds}
           demo == IF label = NULL /\ creds = NULL THEN Dispatch(t, OwnConnection, <<j, owner>>)
                   ELSE Dispatch(t, UpdateConnection(set, put), args)
           sql == IF label = NULL /\ creds = NULL THEN SqlExec(Shown(t), OwnConnection, <<j, owner>>)
                  ELSE SqlExec(Shown(t), UpdateConnection(set, put), args)
<1>1. Demo!PatchConnection(t, owner, j, label, creds) = demo
  BY ConnectionStatements, SameOperators DEF Demo!PatchConnection
<1>2. Database!PatchConnection(Shown(t), owner, j, label, creds) = sql
  BY ConnectionStatements, SameOperators DEF Database!PatchConnection
<1>3. a \in Seq(S) /\ b \in Seq(S) /\ c \in Seq(S) /\ Len(a) = 2 /\ Len(b) \in {0, 1} /\ Len(c) \in {0, 1} /\ a[1] = owner /\ a[2] = j
      /\ (label # NULL => Len(b) = 1)
  <2>1. <<>> \in Seq(S) /\ Len(<<>>) = 0
    OBVIOUS
  <2>2. \A x \in S : <<x>> \in Seq(S) /\ Len(<<x>>) = 1
    OBVIOUS
  <2>3. label \in S /\ creds \in S
    OBVIOUS
  <2>4. a \in Seq(S) /\ Len(a) = 2 /\ a[1] = owner /\ a[2] = j
    OBVIOUS
  <2> HIDE DEF S, a
  <2>5. QED
    BY <2>1, <2>2, <2>3, <2>4
<1>4. Len(args) \in Nat /\ 2 <= Len(args) /\ args[1] = owner /\ args[2] = j /\ (label # NULL => 3 <= Len(args))
  <2> HIDE DEF a, b, c, S
  <2>1. (a \o b) \in Seq(S) /\ Len(a \o b) = 2 + Len(b) /\ (a \o b)[1] = owner /\ (a \o b)[2] = j
    <3>1. /\ a \o b \in Seq(S) /\ Len(a \o b) = Len(a) + Len(b)
          /\ \A i \in 1..(Len(a) + Len(b)) : (a \o b)[i] = IF i <= Len(a) THEN a[i] ELSE b[i - Len(a)]
      BY <1>3, ConcatProperties
    <3>2. 1 \in 1..(Len(a) + Len(b)) /\ 2 \in 1..(Len(a) + Len(b))
      BY <1>3
    <3>3. QED
      BY <1>3, <3>1, <3>2
  <2> DEFINE ab == a \o b
  <2> HIDE DEF ab
  <2>2. ab \in Seq(S) /\ Len(ab) = 2 + Len(b) /\ ab[1] = owner /\ ab[2] = j
    BY <2>1 DEF ab
  <2>3. Len(ab \o c) = Len(ab) + Len(c) /\ (ab \o c)[1] = owner /\ (ab \o c)[2] = j
    <3>1. /\ Len(ab \o c) = Len(ab) + Len(c)
          /\ \A i \in 1..(Len(ab) + Len(c)) : (ab \o c)[i] = IF i <= Len(ab) THEN ab[i] ELSE c[i - Len(ab)]
      BY <1>3, <2>2, ConcatProperties
    <3>2. 1 \in 1..(Len(ab) + Len(c)) /\ 2 \in 1..(Len(ab) + Len(c))
      BY <1>3, <2>2
    <3>3. QED
      BY <1>3, <2>2, <3>1, <3>2
  <2>4. QED
    BY <1>3, <2>2, <2>3 DEF ab
<1> HIDE DEF args
<1>5. DOMAIN set \subseteq {"label", "credentials_enc"} /\ (put = <<>> \/ put = Untested)
  BY DEF Over, Untested
<1>6. \A k \in DOMAIN set : set[k] <= Len(args)
  BY <1>4 DEF Over
<1> HIDE DEF set, put
<1>7. Alike(t, UpdateConnection(set, put), args)
  BY <1>4, <1>5, <1>6, PatchAlike
<1>8. Alike(t, OwnConnection, <<j, owner>>)
  BY OwnAlike
<1>9. Same(demo, sql)
  BY <1>7, <1>8 DEF Same, Alike
<1>10. QED
  BY <1>1, <1>2, <1>9

-----------------------------------------------------------------------------
\* The task of a job.

\* remove_connection's three statements, each on what the one before it found.
LEMMA RemoveSame ==
  ASSUME NEW t, Tables(t), NEW owner, NEW j
  PROVE  Same(Demo!RemoveConnection(t, owner, j), Database!RemoveConnection(Shown(t), owner, j))
<1> DEFINE row == Dispatch(t, OwnConnection, <<j, owner>>).res
           n == Dispatch(t, CountReferencing, <<j>>).res
           dd == Dispatch(t, DeleteConnection, <<j, owner>>).db
           sd == SqlExec(Shown(t), DeleteConnection, <<j, owner>>).db
           srow == SqlExec(Shown(t), OwnConnection, <<j, owner>>).res
           sn == SqlExec(Shown(t), CountReferencing, <<j>>).res
<1>1. Demo!RemoveConnection(t, owner, j) =
        IF row = NoRow THEN Demo!Status(t, "404") ELSE IF n > 0 THEN Demo!Status(t, "409") ELSE Demo!Status(dd, "204")
  BY ConnectionStatements, SameOperators DEF Demo!RemoveConnection
<1>2. Database!RemoveConnection(Shown(t), owner, j) =
        IF srow = NoRow THEN Database!Status(Shown(t), "404") ELSE IF sn > 0 THEN Database!Status(Shown(t), "409") ELSE Database!Status(sd, "204")
  BY ConnectionStatements, SameOperators DEF Database!RemoveConnection
<1>3. srow = row /\ sn = n
  BY OwnAlike, CountReferencingAlike DEF Alike
<1>4. Tables(dd) /\ sd = Shown(dd)
  BY DeleteAlike DEF Alike
<1> HIDE DEF row, n, dd, sd, srow, sn
<1>5. QED
  BY <1>1, <1>2, <1>3, <1>4, SameStatus

\* list_connections shows the same.
LEMMA ListConnectionsSame ==
  ASSUME NEW t, Tables(t), NEW owner
  PROVE  Same(Demo!ListConnections(t, owner), Database!ListConnections(Shown(t), owner))
<1>1. SqlExec(Shown(t), OwnConnections, <<owner>>).res = Dispatch(t, OwnConnections, <<owner>>).res
  BY OwnListAlike DEF Alike
<1>2. Demo!ListConnections(t, owner) = Answer(t, [items |-> Dispatch(t, OwnConnections, <<owner>>).res])
  BY ConnectionStatements, SameOperators DEF Demo!ListConnections
<1>3. Database!ListConnections(Shown(t), owner) = Answer(Shown(t), [items |-> SqlExec(Shown(t), OwnConnections, <<owner>>).res])
  BY ConnectionStatements, SameOperators DEF Database!ListConnections
<1>4. QED
  BY <1>1, <1>2, <1>3, AnswerIs DEF Same

\* The answer to a ping is stored alike.
LEMMA UpdateStatusSame ==
  ASSUME NEW t, Tables(t), NEW j, NEW status
  PROVE  Same(Demo!UpdateStatus(t, j, status), Database!UpdateStatus(Shown(t), j, status))
<1> DEFINE d == Dispatch(t, SetTested, <<status, "then", j>>).db
           s == SqlExec(Shown(t), SetTested, <<status, "then", j>>).db
<1>1. Tables(d) /\ s = Shown(d)
  BY TestedAlike DEF Alike
<1>2. Demo!UpdateStatus(t, j, status) = Demo!Status(d, "200") /\ Database!UpdateStatus(Shown(t), j, status) = Database!Status(s, "200")
  BY ConnectionStatements DEF Demo!UpdateStatus, Database!UpdateStatus
<1> HIDE DEF d, s
<1>3. QED
  BY <1>1, <1>2, SameStatus

\* The UPDATE that says a job runs is alike.
LEMMA SetRunningAlike ==
  ASSUME NEW t, Tables(t), NEW a, NEW b, NEW j
  PROVE  Alike(t, SetRunning, <<a, b, j>>)
<1> DEFINE set == [status |-> 1, started_at |-> 2, last_heartbeat_at |-> 2]
           args == <<a, b, j>>
<1>1. DOMAIN set \subseteq JobKeys \ {"id", "created_at"} /\ \A k \in DOMAIN set : set[k] <= 3
  BY DEF JobKeys
<1>2. Len(args) = 3
  OBVIOUS
<1> HIDE DEF set, args
<1>3. Len(args) \in Nat /\ 3 \in 1..Len(args) /\ \A k \in DOMAIN set : set[k] <= Len(args)
  BY <1>1, <1>2
<1>4. DOMAIN set \subseteq JobKeys \ {"id", "created_at"}
  BY <1>1
<1>5. Alike(t, UpdateJob(set, 3), args)
  BY <1>3, <1>4, UpdateJobAlike
<1>6. QED
  BY <1>5 DEF SetRunning, set, args

\* The UPDATE that ends a job is alike.
LEMMA SetFinishedAlike ==
  ASSUME NEW t, Tables(t), NEW a, NEW b, NEW c, NEW j
  PROVE  Alike(t, SetFinished, <<a, b, c, j>>)
<1> DEFINE set == [status |-> 1, completed_at |-> 2, error_message |-> 3]
           args == <<a, b, c, j>>
<1>1. DOMAIN set \subseteq JobKeys \ {"id", "created_at"} /\ \A k \in DOMAIN set : set[k] <= 4
  BY DEF JobKeys
<1>2. Len(args) = 4
  OBVIOUS
<1> HIDE DEF set, args
<1>3. Len(args) \in Nat /\ 4 \in 1..Len(args) /\ \A k \in DOMAIN set : set[k] <= Len(args)
  BY <1>1, <1>2
<1>4. DOMAIN set \subseteq JobKeys \ {"id", "created_at"}
  BY <1>1
<1>5. Alike(t, UpdateJob(set, 4), args)
  BY <1>3, <1>4, UpdateJobAlike
<1>6. QED
  BY <1>5 DEF SetFinished, set, args

\* The UPDATE of the progress and heartbeat is alike.
LEMMA SetProgressAlike ==
  ASSUME NEW t, Tables(t), NEW a, NEW b, NEW j
  PROVE  Alike(t, SetProgress, <<a, b, j>>)
<1> DEFINE set == [records_processed |-> 1, last_heartbeat_at |-> 2]
           args == <<a, b, j>>
<1>1. DOMAIN set \subseteq JobKeys \ {"id", "created_at"} /\ \A k \in DOMAIN set : set[k] <= 3
  BY DEF JobKeys
<1>2. Len(args) = 3
  OBVIOUS
<1> HIDE DEF set, args
<1>3. Len(args) \in Nat /\ 3 \in 1..Len(args) /\ \A k \in DOMAIN set : set[k] <= Len(args)
  BY <1>1, <1>2
<1>4. DOMAIN set \subseteq JobKeys \ {"id", "created_at"}
  BY <1>1
<1>5. Alike(t, UpdateJob(set, 3), args)
  BY <1>3, <1>4, UpdateJobAlike
<1>6. QED
  BY <1>5 DEF SetProgress, set, args

\* The UPDATE of the total is alike.
LEMMA SetTotalAlike ==
  ASSUME NEW t, Tables(t), NEW a, NEW j
  PROVE  Alike(t, SetTotal, <<a, j>>)
<1> DEFINE set == [records_total |-> 1]
           args == <<a, j>>
<1>1. DOMAIN set \subseteq JobKeys \ {"id", "created_at"} /\ \A k \in DOMAIN set : set[k] <= 2
  BY DEF JobKeys
<1>2. Len(args) = 2
  OBVIOUS
<1> HIDE DEF set, args
<1>3. Len(args) \in Nat /\ 2 \in 1..Len(args) /\ \A k \in DOMAIN set : set[k] <= Len(args)
  BY <1>1, <1>2
<1>4. DOMAIN set \subseteq JobKeys \ {"id", "created_at"}
  BY <1>1
<1>5. Alike(t, UpdateJob(set, 2), args)
  BY <1>3, <1>4, UpdateJobAlike
<1>6. QED
  BY <1>5 DEF SetTotal, set, args

\* The UPDATE of the dataset's id is alike.
LEMMA SetExternalAlike ==
  ASSUME NEW t, Tables(t), NEW a, NEW j
  PROVE  Alike(t, SetExternal, <<a, j>>)
<1> DEFINE set == [external_dataset_id |-> 1]
           args == <<a, j>>
<1>1. DOMAIN set \subseteq JobKeys \ {"id", "created_at"} /\ \A k \in DOMAIN set : set[k] <= 2
  BY DEF JobKeys
<1>2. Len(args) = 2
  OBVIOUS
<1> HIDE DEF set, args
<1>3. Len(args) \in Nat /\ 2 \in 1..Len(args) /\ \A k \in DOMAIN set : set[k] <= Len(args)
  BY <1>1, <1>2
<1>4. DOMAIN set \subseteq JobKeys \ {"id", "created_at"}
  BY <1>1
<1>5. Alike(t, UpdateJob(set, 2), args)
  BY <1>3, <1>4, UpdateJobAlike
<1>6. QED
  BY <1>5 DEF SetExternal, set, args

\* A task that ends its job does the same.
LEMMA FinishedSame ==
  ASSUME NEW t, Tables(t), NEW j, NEW status, NEW error
  PROVE  Same(Demo!Finished(t, j, status, error), Database!Finished(Shown(t), j, status, error))
<1> DEFINE d == Dispatch(t, SetFinished, <<status, "then", error, j>>).db
           s == SqlExec(Shown(t), SetFinished, <<status, "then", error, j>>).db
<1>1. Tables(d) /\ s = Shown(d)
  BY SetFinishedAlike DEF Alike
<1>2. Demo!Finished(t, j, status, error) = Answer(d, [at |-> "done"]) /\ Database!Finished(Shown(t), j, status, error) = Answer(s, [at |-> "done"])
  BY TaskStatements, SameOperators DEF Demo!Finished, Database!Finished, Demo!FinishedArgs, Database!FinishedArgs
<1> HIDE DEF d, s
<1>3. QED
  BY <1>1, <1>2, AnswerIs DEF Same

\* The same result from the same tables is the same answer.
LEMMA SameAnswer ==
  ASSUME NEW t, Tables(t), NEW res
  PROVE  Same(Answer(t, res), Answer(Shown(t), res))
  BY AnswerIs DEF Same

\* run_export_job's first stretch: it reads the row, says that it runs, and looks for the connection.
LEMMA BeginSame ==
  ASSUME NEW t, Tables(t), NEW j
  PROVE  Same(Demo!Begin(t, j), Database!Begin(Shown(t), j))
<1> DEFINE row == Get(t.export_jobs, j)
           dr == Dispatch(t, SetRunning, <<"running", t.now, j>>).db
           sr == SqlExec(Shown(t), SetRunning, <<"running", t.now, j>>).db
           source(r) == Dispatch(dr, ById("connections"), <<r.datasource_ref>>).res
           ssource(r) == SqlExec(sr, ById("connections"), <<r.datasource_ref>>).res
           gone(r) == r = NoRow \/ r.status = "cancelled"
           lost(r) == r.datasource_ref # NULL /\ source(r) = NoRow
           slost(r) == r.datasource_ref # NULL /\ ssource(r) = NoRow
<1>1. Dispatch(t, Demo!ById("export_jobs"), <<j>>).res = row /\ SqlExec(Shown(t), Database!ById("export_jobs"), <<j>>).res = Lift(row)
  BY ByIdIs, JobStatements, AnswerIs
<1>2. row = NoRow \/ (DOMAIN row = JobKeys /\ row # NoRow)
  BY GetRow
<1>3. Tables(dr) /\ sr = Shown(dr)
  BY SetRunningAlike DEF Alike
<1>4. Shown(t).now = t.now
  BY ShownIs
<1> HIDE DEF row
<1>5. Demo!Begin(t, j) = IF gone(row) THEN Answer(t, [at |-> "done"]) ELSE IF lost(row) THEN Demo!Finished(dr, j, "failed", "error")
                         ELSE Answer(dr, [at |-> "counting"])
  BY <1>1, SameOperators, JobStatements, TaskStatements DEF Demo!Begin
<1>6. Database!Begin(Shown(t), j) = IF gone(Lift(row)) THEN Answer(Shown(t), [at |-> "done"])
                         ELSE IF slost(Lift(row)) THEN Database!Finished(sr, j, "failed", "error")
                         ELSE Answer(sr, [at |-> "counting"])
  BY <1>1, <1>4, SameOperators, JobStatements, TaskStatements DEF Database!Begin
<1> HIDE DEF dr, sr
<1>7. gone(Lift(row)) <=> gone(row)
  <2>1. "status" \in JobKeys
    BY DEF JobKeys
  <2>2. QED
    BY <1>2, <2>1, CanSeeSame, ResponseIs DEF Lift
<1>8. ~gone(row) => (slost(Lift(row)) <=> lost(row))
  <2> SUFFICES ASSUME ~gone(row) PROVE slost(Lift(row)) <=> lost(row)
    OBVIOUS
  <2>1. "datasource_ref" \in JobKeys
    BY DEF JobKeys
  <2>2. Lift(row)["datasource_ref"] = row["datasource_ref"]
    BY <1>2, <2>1, ResponseIs DEF Lift
  <2>3. ssource(Lift(row)) = source(row)
    BY <1>3, <2>2, ConnectionAlike DEF Alike
  <2>4. QED
    BY <2>2, <2>3
<1>9. Same(Demo!Finished(dr, j, "failed", "error"), Database!Finished(sr, j, "failed", "error"))
  BY <1>3, FinishedSame
<1>10. Same(Answer(dr, [at |-> "counting"]), Answer(sr, [at |-> "counting"]))
  BY <1>3, SameAnswer
<1>11. Same(Answer(t, [at |-> "done"]), Answer(Shown(t), [at |-> "done"]))
  BY SameAnswer
<1> HIDE DEF gone, lost, slost
<1>12. QED
  BY <1>5, <1>6, <1>7, <1>8, <1>9, <1>10, <1>11

\* run_export_job's stretch after the source has counted: the total.
LEMMA CountedSame ==
  ASSUME NEW t, Tables(t), NEW j, NEW total
  PROVE  Same(Demo!Counted(t, j, total), Database!Counted(Shown(t), j, total))
<1> DEFINE d == Dispatch(t, SetTotal, <<total, j>>).db
           s == SqlExec(Shown(t), SetTotal, <<total, j>>).db
           res == [at |-> "opening"]
<1>1. Demo!Counted(t, j, total) = Answer(d, res) /\ Database!Counted(Shown(t), j, total) = Answer(s, res)
  BY TaskStatements, SameOperators DEF Demo!Counted, Database!Counted
<1>2. Tables(d) /\ s = Shown(d)
  BY SetTotalAlike DEF Alike
<1> HIDE DEF d, s, res
<1>3. QED
  BY <1>1, <1>2, SameAnswer

\* run_export_job's stretch after the sinks have their data sets: the id of the first, if it has one.
LEMMA OpenedSame ==
  ASSUME NEW t, Tables(t), NEW j, NEW total, NEW external
  PROVE  Same(Demo!Opened(t, j, total, external), Database!Opened(Shown(t), j, total, external))
<1> DEFINE d == Dispatch(t, SetExternal, <<external, j>>).db
           s == SqlExec(Shown(t), SetExternal, <<external, j>>).db
           res == [at |-> IF total > 0 THEN "paging" ELSE "closing"]
<1>1. Demo!Opened(t, j, total, external) = Answer(IF external = NULL THEN t ELSE d, res)
  BY TaskStatements, SameOperators DEF Demo!Opened
<1>2. Database!Opened(Shown(t), j, total, external) = Answer(IF external = NULL THEN Shown(t) ELSE s, res)
  BY TaskStatements, SameOperators DEF Database!Opened
<1>3. Tables(d) /\ s = Shown(d)
  BY SetExternalAlike DEF Alike
<1> HIDE DEF d, s, res
<1>4. QED
  BY <1>1, <1>2, <1>3, SameAnswer

\* The task is told the same of a cancellation.
LEMMA IsCancelledSame ==
  ASSUME NEW t, Tables(t), NEW j
  PROVE  Database!IsCancelled(Shown(t), j) <=> Demo!IsCancelled(t, j)
<1>1. SqlExec(Shown(t), StatusOf, <<j>>).res = Dispatch(t, StatusOf, <<j>>).res
  BY StatusAlike DEF Alike
<1>2. QED
  BY <1>1, JobStatements DEF Database!IsCancelled, Demo!IsCancelled, Database!Cancelled, Demo!Cancelled

\* run_export_job's stretch after a page: the progress, then the cancellation.
LEMMA PagedSame ==
  ASSUME NEW t, Tables(t), NEW j, NEW processed, NEW total
  PROVE  Same(Demo!Paged(t, j, processed, total), Database!Paged(Shown(t), j, processed, total))
<1> DEFINE d == Dispatch(t, SetProgress, <<processed, t.now, j>>).db
           s == SqlExec(Shown(t), SetProgress, <<processed, t.now, j>>).db
           dres == [at |-> IF processed = total \/ Demo!IsCancelled(d, j) THEN "closing" ELSE "paging"]
           sres == [at |-> IF processed = total \/ Database!IsCancelled(s, j) THEN "closing" ELSE "paging"]
<1>1. Shown(t).now = t.now
  BY ShownIs
<1>2. Demo!Paged(t, j, processed, total) = Answer(d, dres) /\ Database!Paged(Shown(t), j, processed, total) = Answer(s, sres)
  BY <1>1, TaskStatements, SameOperators DEF Demo!Paged, Database!Paged
<1>3. Tables(d) /\ s = Shown(d)
  BY SetProgressAlike DEF Alike
<1> HIDE DEF d, s
<1>4. sres = dres
  BY <1>3, IsCancelledSame
<1> HIDE DEF sres, dres
<1>5. QED
  BY <1>2, <1>3, <1>4, SameAnswer

\* run_export_job's last stretch.
LEMMA ClosedSame ==
  ASSUME NEW t, Tables(t), NEW j
  PROVE  Same(Demo!Closed(t, j), Database!Closed(Shown(t), j))
<1>1. Demo!Closed(t, j) = IF Demo!IsCancelled(t, j) THEN Answer(t, [at |-> "done"]) ELSE Demo!Finished(t, j, "completed", NULL)
  BY SameOperators DEF Demo!Closed
<1>2. Database!Closed(Shown(t), j) = IF Database!IsCancelled(Shown(t), j) THEN Answer(Shown(t), [at |-> "done"])
                                     ELSE Database!Finished(Shown(t), j, "completed", NULL)
  BY SameOperators DEF Database!Closed
<1>3. QED
  BY <1>1, <1>2, IsCancelledSame, SameAnswer, FinishedSame

-----------------------------------------------------------------------------
\* Every request, and every step.

\* The parameters of a request that its handler needs something of.
Asked(r) ==
  /\ r.op = "create" => r = [op |-> "create", caller |-> r.caller, data |-> r.data] /\ r.data \in Submissions
  /\ r.op = "list" => r.page \in Nat \ {0}
  /\ r.op \in {"create", "retry", "get", "list", "cancel", "connect", "show", "index", "patch", "remove", "tested",
               "begin", "counted", "opened", "paged", "closed", "raised", "wait"}

\* Every request has the parameters its handler needs.
LEMMA RequestIs ==
  ASSUME NEW r \in Requests
  PROVE  Asked(r)
<1>1. CASE r \in OfJobs
  BY <1>1 DEF OfJobs, Asked
<1>2. CASE r \in OfTables
  BY <1>2 DEF OfTables, Asked
<1>3. CASE r \in OfConnections
  BY <1>3 DEF OfConnections, Asked
<1>4. CASE r \in OfTasks
  BY <1>4 DEF OfTasks, Asked
<1>5. QED
  BY <1>1, <1>2, <1>3, <1>4 DEF Requests

\* Time passes alike.
LEMMA WaitSame ==
  ASSUME NEW t, Tables(t)
  PROVE  Same(Answer([t EXCEPT !.now = @ + StaleTimeout], NULL), Answer([Shown(t) EXCEPT !.now = @ + StaleTimeout], NULL))
<1> DEFINE d == [t EXCEPT !.now = @ + StaleTimeout]
           now == t.now + StaleTimeout
<1>1. t.now \in Nat /\ t.issued \in Nat /\ now \in Nat /\ t.now <= now
  BY DemoAssumption DEF Tables
<1>2. d = Record(t.export_jobs, t.connections, <<>>, t.issued, now)
  <2> HIDE DEF now
  <2>1. t = Record(t.export_jobs, t.connections, <<>>, t.issued, t.now)
    BY DEF Tables, Record
  <2>2. d = [t EXCEPT !.now = now]
    BY DEF now
  <2>3. QED
    BY <2>1, <2>2 DEF Record
<1>3. Rows(t.export_jobs, JobKeys, t.issued, now) /\ Rows(t.connections, ConnectionKeys, t.issued, now)
  <2>1. Rows(t.export_jobs, JobKeys, t.issued, t.now) /\ Rows(t.connections, ConnectionKeys, t.issued, t.now)
    BY DEF Tables
  <2> HIDE DEF now
  <2>2. QED
    BY <1>1, <2>1, LaterRows
<1> HIDE DEF d, now
<1>4. Tables(d)
  <2>1. d.export_jobs = t.export_jobs /\ d.connections = t.connections /\ d.issued = t.issued /\ d.now = now
    BY <1>2 DEF Record
  <2>2. d = [export_jobs |-> d.export_jobs, connections |-> d.connections, sync_jobs |-> <<>>, issued |-> d.issued, now |-> d.now]
    BY <1>2 DEF Record
  <2>3. QED
    BY <1>1, <1>3, <2>1, <2>2 DEF Tables
<1>5. Shown(d) = Record(ShownRows(t.export_jobs), t.connections, <<>>, t.issued, now)
  <2>1. Shown(d) = [export_jobs |-> ShownRows(d.export_jobs), connections |-> d.connections, sync_jobs |-> <<>>,
                    issued |-> d.issued, now |-> d.now]
    BY <1>4, ShownIs
  <2>2. QED
    BY <1>2, <2>1 DEF Record
<1>6. [Shown(t) EXCEPT !.now = @ + StaleTimeout] = Shown(d)
  <2> DEFINE s == Shown(t)
  <2>1. s = Record(ShownRows(t.export_jobs), t.connections, <<>>, t.issued, t.now)
    BY ShownIs DEF Record
  <2> HIDE DEF s
  <2>2. [s EXCEPT !.now = @ + StaleTimeout] = [s EXCEPT !.now = now]
    BY <2>1 DEF Record, now
  <2>3. [s EXCEPT !.now = now] = Record(ShownRows(t.export_jobs), t.connections, <<>>, t.issued, now)
    BY <2>1 DEF Record
  <2>4. QED
    BY <1>5, <2>2, <2>3 DEF s
<1>7. QED
  BY <1>4, <1>6, SameAnswer DEF d

\* Every handler but that of a new job does the same with the dictionaries as with the database.
LEMMA OthersSame ==
  ASSUME NEW t, Tables(t), NEW r, Asked(r), r.op # "create"
  PROVE  Same(Demo!Perform(t, r), Database!Perform(Shown(t), r))
<1> DEFINE s == Shown(t)
           demo == Demo!Perform(t, r)
           sql == Database!Perform(s, r)
<1>1. CASE r.op = "retry"
  <2>1. demo = Demo!RetryExportJob(t, r.caller, r.job) /\ sql = Database!RetryExportJob(s, r.caller, r.job)
    BY <1>1 DEF Demo!Perform, Database!Perform
  <2>2. QED
    BY <2>1, RetrySame
<1>2. CASE r.op = "get"
  <2>1. demo = Answer(t, Demo!GetExportJob(t, r.caller, r.job)) /\ sql = Answer(s, Database!GetExportJob(s, r.caller, r.job))
    BY <1>2, SameOperators DEF Demo!Perform, Database!Perform
  <2>2. QED
    BY <2>1, GetSame, SameAnswer
<1>3. CASE r.op = "list"
  <2>1. demo = Demo!ListExportJobs(t, r.caller, r.page, r.status) /\ sql = Database!ListExportJobs(s, r.caller, r.page, r.status)
    BY <1>3 DEF Demo!Perform, Database!Perform
  <2>2. r.page \in Nat \ {0}
    BY <1>3 DEF Asked
  <2>3. QED
    BY <2>1, <2>2, ListSame
<1>4. CASE r.op = "cancel"
  <2>1. demo = Demo!CancelExportJob(t, r.caller, r.job) /\ sql = Database!CancelExportJob(s, r.caller, r.job)
    BY <1>4 DEF Demo!Perform, Database!Perform
  <2>2. QED
    BY <2>1, CancelSame
<1>5. CASE r.op = "connect"
  <2> DEFINE args == <<r.owner, "label", "creds">>
  <2>1. demo = Dispatch(t, InsertConnection, args) /\ sql = SqlExec(s, InsertConnection, args)
    BY <1>5, SameStatements DEF Demo!Perform, Database!Perform
  <2> HIDE DEF args
  <2>2. QED
    BY <2>1, InsertConnectionAlike DEF Alike, Same
<1>6. CASE r.op = "show"
  <2>1. demo = Dispatch(t, OwnConnection, <<r.conn, r.owner>>) /\ sql = SqlExec(s, OwnConnection, <<r.conn, r.owner>>)
    BY <1>6, ConnectionStatements DEF Demo!Perform, Database!Perform
  <2>2. QED
    BY <2>1, OwnAlike DEF Alike, Same
<1>7. CASE r.op = "index"
  <2>1. demo = Demo!ListConnections(t, r.owner) /\ sql = Database!ListConnections(s, r.owner)
    BY <1>7 DEF Demo!Perform, Database!Perform
  <2>2. QED
    BY <2>1, ListConnectionsSame
<1>8. CASE r.op = "patch"
  <2>1. /\ demo = Demo!PatchConnection(t, r.owner, r.conn, r.label, r.creds)
        /\ sql = Database!PatchConnection(s, r.owner, r.conn, r.label, r.creds)
    BY <1>8 DEF Demo!Perform, Database!Perform
  <2>2. QED
    BY <2>1, PatchSame
<1>9. CASE r.op = "remove"
  <2>1. demo = Demo!RemoveConnection(t, r.owner, r.conn) /\ sql = Database!RemoveConnection(s, r.owner, r.conn)
    BY <1>9 DEF Demo!Perform, Database!Perform
  <2>2. QED
    BY <2>1, RemoveSame
<1>10. CASE r.op = "tested"
  <2>1. demo = Demo!UpdateStatus(t, r.conn, r.status) /\ sql = Database!UpdateStatus(s, r.conn, r.status)
    BY <1>10 DEF Demo!Perform, Database!Perform
  <2>2. QED
    BY <2>1, UpdateStatusSame
<1>11. CASE r.op = "begin"
  <2>1. demo = Demo!Begin(t, r.job) /\ sql = Database!Begin(s, r.job)
    BY <1>11 DEF Demo!Perform, Database!Perform
  <2>2. QED
    BY <2>1, BeginSame
<1>12. CASE r.op = "counted"
  <2>1. demo = Demo!Counted(t, r.job, r.total) /\ sql = Database!Counted(s, r.job, r.total)
    BY <1>12 DEF Demo!Perform, Database!Perform
  <2>2. QED
    BY <2>1, CountedSame
<1>13. CASE r.op = "paged"
  <2>1. demo = Demo!Paged(t, r.job, r.processed, r.total) /\ sql = Database!Paged(s, r.job, r.processed, r.total)
    BY <1>13 DEF Demo!Perform, Database!Perform
  <2>2. QED
    BY <2>1, PagedSame
<1>14. CASE r.op = "closed"
  <2>1. demo = Demo!Closed(t, r.job) /\ sql = Database!Closed(s, r.job)
    BY <1>14 DEF Demo!Perform, Database!Perform
  <2>2. QED
    BY <2>1, ClosedSame
<1>15. CASE r.op = "raised"
  <2>1. demo = Demo!Finished(t, r.job, "failed", "error") /\ sql = Database!Finished(s, r.job, "failed", "error")
    BY <1>15 DEF Demo!Perform, Database!Perform
  <2>2. QED
    BY <2>1, FinishedSame
<1>16. CASE r.op = "wait"
  <2>1. demo = Answer([t EXCEPT !.now = @ + StaleTimeout], NULL) /\ sql = Answer([s EXCEPT !.now = @ + StaleTimeout], NULL)
    BY <1>16, SameOperators DEF Demo!Perform, Database!Perform
  <2>2. QED
    BY <2>1, WaitSame
<1>17. CASE r.op = "opened"
  <2>1. demo = Demo!Opened(t, r.job, r.total, r.external) /\ sql = Database!Opened(s, r.job, r.total, r.external)
    BY <1>17 DEF Demo!Perform, Database!Perform
  <2>2. QED
    BY <2>1, OpenedSame
<1>18. QED
  BY <1>1, <1>2, <1>3, <1>4, <1>5, <1>6, <1>7, <1>8, <1>9, <1>10, <1>11, <1>12, <1>13, <1>14, <1>15, <1>16, <1>17 DEF Asked

\* What a submission is without its field extraction.
LEMMA PlainForgets ==
  ASSUME NEW data \in Submissions
  PROVE  Forgets(data, Plain(data))
<1>1. DOMAIN data = {"source", "sink", "dest", "resolve", "asink", "adest", "hook", "extract"}
  BY SubmissionsAssumption
<1>2. Plain(data).extract = Demo!Absent["field_extraction"]
  <2>1. Plain(data).extract = FALSE
    BY <1>1, Zenon DEF Plain
  <2>2. QED
    BY <2>1, NotExtracted, Zenon
<1>3. QED
  BY <1>1, <1>2 DEF Forgets, Plain

\* Every handler does the same with the dictionaries as with the database, where a new job asks for no
\* field extraction.
LEMMA PerformSame ==
  ASSUME NEW t, Tables(t), NEW r, Asked(r)
  PROVE  Same(Demo!Perform(t, r), Database!Perform(Shown(t), WithoutExtraction(r)))
<1>1. CASE r.op = "create"
  <2>1. r = [op |-> "create", caller |-> r.caller, data |-> r.data] /\ r.data \in Submissions
    BY <1>1 DEF Asked
  <2>2. WithoutExtraction(r) = [op |-> "create", caller |-> r.caller, data |-> Plain(r.data)]
    BY <1>1, <2>1 DEF WithoutExtraction
  <2>3. Demo!Perform(t, r) = Demo!Admit(t, r.data, r.caller)
    BY <1>1 DEF Demo!Perform
  <2>4. Database!Perform(Shown(t), WithoutExtraction(r)) = Database!Admit(Shown(t), Plain(r.data), r.caller)
    BY <2>2 DEF Database!Perform
  <2>5. QED
    BY <2>1, <2>3, <2>4, PlainForgets, AdmitSame
<1>2. CASE r.op # "create"
  BY <1>2, OthersSame DEF WithoutExtraction
<1>3. QED
  BY <1>1, <1>2

\* Every step of the system is a request, or changes no table.
LEMMA EveryStep ==
  ASSUME [Next]_vars
  PROVE  db' = db \/ \E r : Asked(r) /\ Serve(r)
<1>1. ASSUME NEW c \in Callers, NEW data \in Submissions, Create(c, data) PROVE \E r : Asked(r) /\ Serve(r)
  <2> DEFINE r == [op |-> "create", caller |-> c, data |-> data]
  <2>1. Asked(r) /\ Serve(r)
    BY <1>1 DEF Create, Asked
  <2>2. QED
    BY <2>1
<1>2. ASSUME NEW c \in Callers, NEW i \in Ids, Retry(c, i) PROVE \E r : Asked(r) /\ Serve(r)
  <2> DEFINE r == [op |-> "retry", caller |-> c, job |-> i]
  <2>1. Asked(r) /\ Serve(r)
    BY <1>2 DEF Retry, Asked
  <2>2. QED
    BY <2>1
<1>3. ASSUME NEW c \in Callers, NEW i \in Ids, Cancel(c, i) PROVE \E r : Asked(r) /\ Serve(r)
  <2> DEFINE r == [op |-> "cancel", caller |-> c, job |-> i]
  <2>1. Asked(r) /\ Serve(r)
    BY <1>3 DEF Cancel, Asks, Asked
  <2>2. QED
    BY <2>1
<1>4. ASSUME NEW c \in Callers, NEW i \in Ids, Delete(c, i) PROVE \E r : Asked(r) /\ Serve(r)
  <2> DEFINE r == [op |-> "remove", owner |-> Demo!Owner(c), conn |-> i]
  <2>1. Asked(r) /\ Serve(r)
    BY <1>4 DEF Delete, Asks, Asked
  <2>2. QED
    BY <2>1
<1>5. ASSUME NEW c \in Callers, NEW i \in Ids, NEW label, NEW creds, Patch(c, i, label, creds)
      PROVE  \E r : Asked(r) /\ Serve(r)
  <2> DEFINE r == [op |-> "patch", owner |-> Demo!Owner(c), conn |-> i, label |-> label, creds |-> creds]
  <2>1. Asked(r) /\ Serve(r)
    BY <1>5 DEF Patch, Asks, Asked
  <2>2. QED
    BY <2>1
<1>6. ASSUME NEW c \in Callers, Connect(c) PROVE \E r : Asked(r) /\ Serve(r)
  <2> DEFINE r == [op |-> "connect", owner |-> Demo!Owner(c)]
  <2>1. Asked(r) /\ Serve(r)
    BY <1>6 DEF Connect, Asks, Asked
  <2>2. QED
    BY <2>1
<1>7. ASSUME NEW i \in Ids, Start(i) PROVE \E r : Asked(r) /\ Serve(r)
  <2> DEFINE r == [op |-> "begin", job |-> i]
  <2>1. Asked(r) /\ Serve(r)
    BY <1>7 DEF Start, Runs, Asked
  <2>2. QED
    BY <2>1
<1>8. ASSUME NEW i \in Ids, Page(i) PROVE \E r : Asked(r) /\ Serve(r)
  <2> DEFINE r == [op |-> "paged", job |-> i, processed |-> db.export_jobs[i].records_processed + 1,
                   total |-> db.export_jobs[i].records_total]
  <2>1. Asked(r) /\ Serve(r)
    BY <1>8 DEF Page, Runs, Asked
  <2>2. QED
    BY <2>1
<1>9. ASSUME NEW i \in Ids, Close(i) PROVE \E r : Asked(r) /\ Serve(r)
  <2> DEFINE r == [op |-> "closed", job |-> i]
  <2>1. Asked(r) /\ Serve(r)
    BY <1>9 DEF Close, Runs, Asked
  <2>2. QED
    BY <2>1
<1>10. ASSUME NEW i \in Ids, Raise(i) PROVE \E r : Asked(r) /\ Serve(r)
  <2> DEFINE r == [op |-> "raised", job |-> i]
  <2>1. Asked(r) /\ Serve(r)
    BY <1>10 DEF Raise, Runs, Asked
  <2>2. QED
    BY <2>1
<1>11. ASSUME NEW i \in Ids, NEW n \in Totals, CountTotal(i, n) PROVE \E r : Asked(r) /\ Serve(r)
  <2> DEFINE r == [op |-> "counted", job |-> i, total |-> n]
  <2>1. Asked(r) /\ Serve(r)
    BY <1>11 DEF CountTotal, Runs, Asked
  <2>2. QED
    BY <2>1
<1>12. ASSUME NEW i \in Ids, NEW s, Tested(i, s) PROVE \E r : Asked(r) /\ Serve(r)
  <2> DEFINE r == [op |-> "tested", conn |-> i, status |-> s]
  <2>1. Asked(r) /\ Serve(r)
    BY <1>12 DEF Tested, Asks, Asked
  <2>2. QED
    BY <2>1
<1>13. ASSUME Wait PROVE \E r : Asked(r) /\ Serve(r)
  <2> DEFINE r == [op |-> "wait"]
  <2>1. Asked(r) /\ Serve(r)
    BY <1>13 DEF Wait, Asks, Asked
  <2>2. QED
    BY <2>1
<1>14. ASSUME NEW i \in Ids, NEW external, Open(i, external) PROVE \E r : Asked(r) /\ Serve(r)
  <2> DEFINE r == [op |-> "opened", job |-> i, total |-> db.export_jobs[i].records_total, external |-> external]
  <2>1. Asked(r) /\ Serve(r)
    BY <1>14 DEF Open, Runs, Asked
  <2>2. QED
    BY <2>1
<1>15. CASE UNCHANGED vars
  BY <1>15 DEF vars
<1>16. QED
  BY <1>1, <1>2, <1>3, <1>4, <1>5, <1>6, <1>7, <1>8, <1>9, <1>10, <1>11, <1>12, <1>13, <1>14, <1>15 DEF Next, Resume

\* The empty dictionaries are tables.
LEMMA TablesInit == Init => Tables(db)
<1> SUFFICES ASSUME Init PROVE Tables(db)
  OBVIOUS
<1>1. db = [export_jobs |-> <<>>, connections |-> <<>>, sync_jobs |-> <<>>, issued |-> 0, now |-> 0]
  BY DEF Init
<1>2. \A columns : Rows(<<>>, columns, 0, 0)
  BY DEF Rows
<1>3. QED
  BY <1>1, <1>2 DEF Tables

\* What makes AnswersAsSql inductive: a request leaves tables, since it does the same in both.
LEMMA TablesStep == Tables(db) /\ [Next]_vars => Tables(db)'
<1> SUFFICES ASSUME Tables(db), [Next]_vars PROVE Tables(db')
  BY DEF Tables, Rows
<1>1. CASE db' = db
  BY <1>1
<1>2. CASE \E r : Asked(r) /\ Serve(r)
  <2>1. PICK r : Asked(r) /\ Serve(r)
    BY <1>2
  <2>2. Tables(Demo!Perform(db, r).db)
    BY <2>1, PerformSame DEF Same
  <2>3. QED
    BY <2>1, <2>2 DEF Serve, Answered
<1>3. QED
  BY <1>1, <1>2, EveryStep

\* Demo mode answers every request as the database would, whatever has been asked of it before, but for
\* the field extraction it forgets, and leaves the tables as the database would have them (DemoPool._dispatch and all below it).
THEOREM DemoAnswersAsSql == Spec => []AnswersAsSql
<1>1. Tables(db) => AnswersAsSql
  <2> SUFFICES ASSUME Tables(db), NEW r \in Requests
               PROVE  /\ Answered(r).res = Database!Perform(Shown(db), WithoutExtraction(r)).res
                      /\ Shown(Answered(r).db) = Database!Perform(Shown(db), WithoutExtraction(r)).db
    BY DEF AnswersAsSql
  <2>1. Same(Demo!Perform(db, r), Database!Perform(Shown(db), WithoutExtraction(r)))
    BY RequestIs, PerformSame
  <2>2. QED
    BY <2>1 DEF Same, Answered
<1>2. QED
  BY <1>1, TablesInit, TablesStep, PTL DEF Spec

-----------------------------------------------------------------------------
\* What changes no setting of a job.

\* The columns that a retry copies.
SettingKeys ==
  {"datasource_ref", "datasink_name", "destination_dataset", "asset_resolution",
   "asset_datasink_name", "asset_dataset", "webhook_url"}

\* The settings of a row by their names.
LEMMA SettingsIs == \A row : Settings(row) = [c \in SettingKeys |-> row[c]]
  BY DEF Settings, JobColumns, SettingKeys

\* The same jobs, with the same settings.
Keep(t, u) ==
  /\ DOMAIN u.export_jobs = DOMAIN t.export_jobs
  /\ \A i \in DOMAIN t.export_jobs : Settings(u.export_jobs[i]) = Settings(t.export_jobs[i])

\* Nothing done keeps the jobs, and so do two things one after the other that keep them.
LEMMA KeepIs ==
  /\ \A t : Keep(t, t)
  /\ \A t, u, v : Keep(t, u) /\ Keep(u, v) => Keep(t, v)
  BY DEF Keep

\* An UPDATE of export_jobs that names no setting changes none.
LEMMA KeepUpdate ==
  ASSUME NEW t, Tables(t), NEW st, NEW args, Dispatch(t, st, args) = JobUpdate(t, st, args),
         DOMAIN st.set \cap SettingKeys = {}, DOMAIN st.where \cap SettingKeys = {}
  PROVE  Keep(t, Dispatch(t, st, args).db)
<1> DEFINE rows == t.export_jobs
           cancels == "status='cancelled'" \in st.text
           expires == "status='failed'" \in st.text
           ids == IF cancels THEN {i \in DOMAIN rows \cap {args[1]} : rows[i].status \in Active}
                  ELSE IF expires THEN {i \in DOMAIN rows : Expires(st, args, rows[i])}
                  ELSE IF "where_id=$" \in st.text THEN DOMAIN rows \cap {args[st.where["id"]]} ELSE {}
           new(row) == IF cancels THEN [row EXCEPT !.status = "cancelled"]
                       ELSE IF expires THEN Over(TimedOut, row)
                       ELSE Over(Written(st, args, Len(args), {"id"}), row)
           u == [i \in DOMAIN rows |-> IF i \in ids THEN new(rows[i]) ELSE rows[i]]
<1>1. Dispatch(t, st, args) = Answer([t EXCEPT !.export_jobs = u], Cardinality(ids))
  BY Zenon DEF JobUpdate
<1>2. "export_jobs" \in DOMAIN t
  BY DEF Tables
<1>3. Dispatch(t, st, args).db.export_jobs = u
  <2> HIDE DEF u, ids
  <2>1. QED
    BY <1>1, <1>2, AnswerIs
<1>4. ASSUME NEW row, DOMAIN row = JobKeys, NEW c \in SettingKeys PROVE new(row)[c] = row[c]
  <2>1. c \in JobKeys /\ c # "status" /\ c # "error_message"
    BY DEF JobKeys, SettingKeys
  <2>2. [row EXCEPT !.status = "cancelled"][c] = row[c]
    BY <1>4, <2>1
  <2>3. Over(TimedOut, row)[c] = row[c]
    BY <1>4, <2>1 DEF Over, TimedOut
  <2>4. c \notin DOMAIN Written(st, args, Len(args), {"id"})
    BY DEF Written, Pairs, Over
  <2>5. Over(Written(st, args, Len(args), {"id"}), row)[c] = row[c]
    BY <1>4, <2>1, <2>4 DEF Over
  <2> HIDE DEF cancels, expires
  <2>6. QED
    BY <2>2, <2>3, <2>5
<1> HIDE DEF new, ids
<1>5. ASSUME NEW i \in DOMAIN rows PROVE Settings(u[i]) = Settings(rows[i])
  <2>1. DOMAIN rows[i] = JobKeys
    BY DEF Tables, Rows
  <2>2. \A c \in SettingKeys : u[i][c] = rows[i][c]
    BY <1>4, <2>1
  <2> HIDE DEF u, rows
  <2>3. QED
    BY <2>2, SettingsIs
<1>6. DOMAIN u = DOMAIN rows
  OBVIOUS
<1> HIDE DEF u
<1>7. QED
  BY <1>3, <1>5, <1>6 DEF Keep

\* A SELECT of jobs changes nothing.
LEMMA KeepSelect ==
  ASSUME NEW t, NEW st, NEW args
  PROVE  Keep(t, JobSelect(t, st, args).db)
<1>1. JobSelect(t, st, args).db = t
  BY AnswerIs DEF JobSelect
<1>2. QED
  BY <1>1, KeepIs

\* A statement on connections changes no job.
LEMMA KeepConnections ==
  ASSUME NEW t, Tables(t), NEW st, NEW args
  PROVE  /\ Keep(t, ConnInsert(t, args).db)
         /\ Keep(t, ConnUpdate(t, st, args).db)
         /\ Keep(t, ConnSelect(t, st, args).db)
         /\ Keep(t, ConnDelete(t, args).db)
<1>0. DOMAIN t = {"export_jobs", "connections", "sync_jobs", "issued", "now"}
  BY DEF Tables
<1>1. ASSUME NEW x PROVE [t EXCEPT !.connections = x].export_jobs = t.export_jobs /\ DOMAIN [t EXCEPT !.connections = x] = DOMAIN t
  BY <1>0
<1>2. ASSUME NEW id, NEW row PROVE Put(t, "connections", id, row).export_jobs = t.export_jobs /\ DOMAIN Put(t, "connections", id, row) = DOMAIN t
  BY <1>0 DEF Put
<1>3. ConnInsert(t, args).db.export_jobs = t.export_jobs
  <2> DEFINE id == t.issued + 1
             row == [id |-> id, owner_key |-> args[1], label |-> args[2], credentials_enc |-> args[3],
                     status |-> "untested", last_tested_at |-> NULL, created_at |-> t.now]
             x == Put(t, "connections", id, row)
             y == [x EXCEPT !.issued = id, !.now = @ + 1]
  <2>1. ConnInsert(t, args) = Answer(y, row)
    BY DEF ConnInsert
  <2>2. x.export_jobs = t.export_jobs /\ DOMAIN x = DOMAIN t
    BY <1>2
  <2> HIDE DEF x, row, id
  <2>3. y.export_jobs = x.export_jobs
    BY <1>0, <2>2
  <2> HIDE DEF y
  <2>4. QED
    BY <2>1, <2>2, <2>3, AnswerIs
<1>4. ConnUpdate(t, st, args).db.export_jobs = t.export_jobs
  BY <1>2, AnswerIs DEF ConnUpdate
<1>5. ConnDelete(t, args).db.export_jobs = t.export_jobs
  <2> DEFINE x == [i \in DOMAIN t.connections \ {args[1]} |-> t.connections[i]]
             own == Get(t.connections, args[1]) # NoRow /\ Get(t.connections, args[1]).owner_key = args[2]
             y == [t EXCEPT !.connections = x]
  <2>1. ConnDelete(t, args) = IF own THEN Answer(y, 1) ELSE Answer(t, 0)
    BY DEF ConnDelete
  <2> HIDE DEF x, own
  <2>2. y.export_jobs = t.export_jobs
    BY <1>1
  <2> HIDE DEF y
  <2>3. QED
    BY <2>1, <2>2, AnswerIs
<1>6. ConnSelect(t, st, args).db.export_jobs = t.export_jobs
  BY AnswerIs DEF ConnSelect
<1>7. QED
  BY <1>3, <1>4, <1>5, <1>6 DEF Keep

\* A status code changes nothing.
LEMMA KeepStatus ==
  ASSUME NEW t, NEW u, Keep(t, u), NEW code
  PROVE  Keep(t, Demo!Status(u, code).db)
  BY SameOperators, AnswerIs

\* The expiries of count_active_jobs_for_org change no setting.
LEMMA KeepCount ==
  ASSUME NEW t, Tables(t), NEW org
  PROVE  Keep(t, Demo!CountActiveJobsForOrg(t, org).db)
<1> DEFINE args == <<org, t.now - StaleTimeout>>
           d1 == Dispatch(t, Expire("running", "last_heartbeat_at"), args).db
           d2 == Dispatch(d1, Expire("pending", "created_at"), args).db
           d3 == Dispatch(d2, CountActive, <<org>>).db
<1>1. Demo!CountActiveJobsForOrg(t, org).db = d3
  BY JobStatements DEF Demo!CountActiveJobsForOrg
<1>2. ASSUME NEW x, Tables(x), NEW status \in DOMAIN Equals, NEW column PROVE Keep(x, Dispatch(x, Expire(status, column), args).db)
  <2> DEFINE st == Expire(status, column)
  <2>1. st.set = <<>> /\ Dispatch(x, st, args) = JobUpdate(x, st, args)
    <3>1. st.set = <<>>
      BY DEF Expire, Blank
    <3> HIDE DEF args
    <3>2. Dispatch(x, st, args) = JobUpdate(x, st, args)
      BY Dispatched
    <3>3. QED
      BY <3>1, <3>2
  <2>2. DOMAIN st.where = {"org_id"}
    BY DEF Expire, Blank
  <2>3. "org_id" \notin SettingKeys
    BY DEF SettingKeys
  <2> HIDE DEF st, args
  <2>4. Keep(x, Dispatch(x, st, args).db)
    BY <1>2, <2>1, <2>2, <2>3, KeepUpdate
  <2>5. QED
    BY <2>4 DEF st
<1>3. Tables(d1)
  BY ExpireAlike DEF Alike
<1>8. "running" \in DOMAIN Equals /\ "pending" \in DOMAIN Equals
  BY DEF Equals
<1>4. Keep(t, d1)
  BY <1>2, <1>8
<1> HIDE DEF d1
<1>5. Keep(d1, d2)
  BY <1>2, <1>3, <1>8
<1> HIDE DEF d2
<1>6. Keep(d2, d3)
  BY Dispatched, KeepSelect
<1> HIDE DEF d3
<1>7. QED
  BY <1>1, <1>4, <1>5, <1>6, KeepIs

\* An UPDATE by id changes no setting that it does not name.
LEMMA KeepTask ==
  ASSUME NEW t, Tables(t), NEW set, NEW n, NEW args, DOMAIN set \cap SettingKeys = {}
  PROVE  Keep(t, Dispatch(t, UpdateJob(set, n), args).db)
<1> DEFINE st == UpdateJob(set, n)
<1>1. Dispatch(t, st, args) = JobUpdate(t, st, args) /\ st.set = set /\ st.where = [id |-> n]
  <2>1. st.set = set /\ st.where = [id |-> n]
    BY DEF UpdateJob, Blank
  <2>2. Dispatch(t, st, args) = JobUpdate(t, st, args)
    BY Dispatched
  <2>3. QED
    BY <2>1, <2>2
<1>2. "id" \notin SettingKeys
  BY DEF SettingKeys
<1> HIDE DEF st
<1>3. Keep(t, Dispatch(t, st, args).db)
  BY <1>1, <1>2, KeepUpdate
<1>4. QED
  BY <1>3 DEF st

\* The updates of a task change no setting.
LEMMA KeepTasks ==
  ASSUME NEW t, Tables(t), NEW args
  PROVE  /\ Keep(t, Dispatch(t, SetRunning, args).db)
         /\ Keep(t, Dispatch(t, SetFinished, args).db)
         /\ Keep(t, Dispatch(t, SetProgress, args).db)
         /\ Keep(t, Dispatch(t, SetTotal, args).db)
         /\ Keep(t, Dispatch(t, SetExternal, args).db)
<1>1. \A c \in {"status", "started_at", "last_heartbeat_at", "completed_at", "error_message", "records_processed",
                "records_total", "external_dataset_id"} : c \notin SettingKeys
  BY DEF SettingKeys
<1>2. Keep(t, Dispatch(t, SetRunning, args).db)
  BY <1>1, KeepTask DEF SetRunning
<1>3. Keep(t, Dispatch(t, SetFinished, args).db)
  BY <1>1, KeepTask DEF SetFinished
<1>4. Keep(t, Dispatch(t, SetProgress, args).db)
  BY <1>1, KeepTask DEF SetProgress
<1>5. Keep(t, Dispatch(t, SetTotal, args).db)
  BY <1>1, KeepTask DEF SetTotal
<1>6. Keep(t, Dispatch(t, SetExternal, args).db)
  BY <1>1, KeepTask DEF SetExternal
<1>7. QED
  BY <1>2, <1>3, <1>4, <1>5, <1>6

\* The end of a job changes no setting.
LEMMA KeepFinished ==
  ASSUME NEW t, Tables(t), NEW j, NEW status, NEW error
  PROVE  Keep(t, Demo!Finished(t, j, status, error).db)
<1> DEFINE args == <<status, "then", error, j>>
<1>1. Demo!Finished(t, j, status, error).db = Dispatch(t, SetFinished, args).db
  BY TaskStatements, SameOperators, AnswerIs DEF Demo!Finished, Demo!FinishedArgs
<1> HIDE DEF args
<1>2. QED
  BY <1>1, KeepTasks

\* run_export_job's first stretch changes no setting.
LEMMA KeepBegin ==
  ASSUME NEW t, Tables(t), NEW j
  PROVE  Keep(t, Demo!Begin(t, j).db)
<1> DEFINE args == <<"running", t.now, j>>
           d == Dispatch(t, SetRunning, args).db
           f == Demo!Finished(d, j, "failed", "error")
<1>1. Tables(d)
  BY SetRunningAlike DEF Alike
<1>2. Demo!Begin(t, j).db \in {t, d, f.db}
  <2> DEFINE begin == Demo!Begin(t, j)
             other == [at |-> "done"]
             counting == [at |-> "counting"]
  <2>1. begin \in {Answer(t, other), f, Answer(d, counting)}
    BY TaskStatements, SameOperators DEF Demo!Begin
  <2> HIDE DEF begin, d, f, other, counting
  <2>2. begin.db \in {t, d, f.db}
    BY <2>1, AnswerIs
  <2>3. QED
    BY <2>2 DEF begin
<1> HIDE DEF args
<1>3. Keep(t, d)
  BY KeepTasks
<1> HIDE DEF d
<1>4. Keep(d, f.db)
  BY <1>1, KeepFinished
<1> HIDE DEF f
<1>5. QED
  BY <1>2, <1>3, <1>4, KeepIs

\* run_export_job's stretch after the count changes no setting.
LEMMA KeepCounted ==
  ASSUME NEW t, Tables(t), NEW j, NEW total
  PROVE  Keep(t, Demo!Counted(t, j, total).db)
<1> DEFINE args == <<total, j>>
<1>1. Demo!Counted(t, j, total).db = Dispatch(t, SetTotal, args).db
  BY TaskStatements, SameOperators, AnswerIs DEF Demo!Counted
<1> HIDE DEF args
<1>2. QED
  BY <1>1, KeepTasks

\* Nor does its stretch after the sinks have their data sets.
LEMMA KeepOpened ==
  ASSUME NEW t, Tables(t), NEW j, NEW total, NEW external
  PROVE  Keep(t, Demo!Opened(t, j, total, external).db)
<1> DEFINE args == <<external, j>>
           d == Dispatch(t, SetExternal, args).db
<1>1. Demo!Opened(t, j, total, external).db \in {t, d}
  BY TaskStatements, SameOperators, AnswerIs DEF Demo!Opened
<1> HIDE DEF args
<1>2. Keep(t, d)
  BY KeepTasks
<1> HIDE DEF d
<1>3. QED
  BY <1>1, <1>2, KeepIs

\* run_export_job's stretch after a page changes no setting.
LEMMA KeepPaged ==
  ASSUME NEW t, Tables(t), NEW j, NEW processed, NEW total
  PROVE  Keep(t, Demo!Paged(t, j, processed, total).db)
<1> DEFINE args == <<processed, t.now, j>>
           d == Dispatch(t, SetProgress, args).db
<1>1. Demo!Paged(t, j, processed, total).db = d
  BY TaskStatements, SameOperators, AnswerIs DEF Demo!Paged
<1> HIDE DEF args
<1>2. Keep(t, d)
  BY KeepTasks
<1>3. QED
  BY <1>1, <1>2

\* run_export_job's last stretch changes no setting.
LEMMA KeepClosed ==
  ASSUME NEW t, Tables(t), NEW j
  PROVE  Keep(t, Demo!Closed(t, j).db)
<1>1. Demo!Closed(t, j).db \in {t, Demo!Finished(t, j, "completed", NULL).db}
  BY SameOperators, AnswerIs DEF Demo!Closed
<1>2. QED
  BY <1>1, KeepFinished, KeepIs

\* cancel_export_job changes no setting.
LEMMA KeepCancel ==
  ASSUME NEW t, Tables(t), NEW caller, NEW j
  PROVE  Keep(t, Demo!CancelExportJob(t, caller, j).db)
<1> DEFINE d == Dispatch(t, CancelActive, <<j>>).db
<1>1. Demo!CancelExportJob(t, caller, j).db \in {t, d}
  <2> DEFINE cancel == Demo!CancelExportJob(t, caller, j)
  <2>1. \/ cancel = Demo!Status(d, "204") \/ cancel = Demo!Status(t, "404") \/ cancel = Demo!Status(t, "409")
    BY JobStatements DEF Demo!CancelExportJob
  <2> HIDE DEF cancel, d
  <2>2. cancel.db \in {t, d}
    BY <2>1, SameOperators, AnswerIs
  <2>3. QED
    BY <2>2 DEF cancel
<1>2. Keep(t, d)
  <2> DEFINE st == CancelActive
  <2>1. Dispatch(t, st, <<j>>) = JobUpdate(t, st, <<j>>) /\ st.set = <<>> /\ DOMAIN st.where = {"id"}
    BY Dispatched DEF CancelActive, UpdateJob, Blank
  <2>2. "id" \notin SettingKeys
    BY DEF SettingKeys
  <2> HIDE DEF st
  <2>3. Keep(t, Dispatch(t, st, <<j>>).db)
    BY <2>1, <2>2, KeepUpdate
  <2>4. QED
    BY <2>3 DEF st
<1> HIDE DEF d
<1>3. QED
  BY <1>1, <1>2, KeepIs

-----------------------------------------------------------------------------
\* The settings of a new job, and of a retry.

\* Where the assets of a job go: as InsertExportJob fills it in.
Filled(resolve, asink, sink, adest, dest) ==
  IF resolve THEN <<IF asink # NULL THEN asink ELSE sink, IF adest # NULL THEN adest ELSE <<dest, "assets">>>>
  ELSE <<NULL, NULL>>

\* The settings of a row are those of a submission.
FromData(row, data) ==
  LET a == Filled(data.resolve, data.asink, data.sink, data.adest, data.dest)
  IN  /\ row["datasource_ref"] = data.source /\ row["datasink_name"] = data.sink
      /\ row["destination_dataset"] = data.dest /\ row["asset_resolution"] = data.resolve
      /\ row["asset_datasink_name"] = a[1] /\ row["asset_dataset"] = a[2] /\ row["webhook_url"] = data.hook

\* Filling in the settings of the row again changes nothing.
Complete(row) ==
  LET a == Filled(row["asset_resolution"], row["asset_datasink_name"], row["datasink_name"],
                  row["asset_dataset"], row["destination_dataset"])
  IN  a[1] = row["asset_datasink_name"] /\ a[2] = row["asset_dataset"]

\* The places that insert_export_job fills in for the assets are left as they are when filled in again.
LEMMA FilledAgain ==
  ASSUME NEW resolve, NEW asink, NEW sink, NEW adest, NEW dest
  PROVE  LET a == Filled(resolve, asink, sink, adest, dest)
             b == Filled(resolve, a[1], sink, a[2], dest)
         IN  b[1] = a[1] /\ b[2] = a[2]
<1> DEFINE a == Filled(resolve, asink, sink, adest, dest)
           b == Filled(resolve, a[1], sink, a[2], dest)
<1>1. CASE resolve
  <2>1. a[1] = (IF asink # NULL THEN asink ELSE sink) /\ a[2] = (IF adest # NULL THEN adest ELSE <<dest, "assets">>)
    BY <1>1 DEF Filled
  <2> HIDE DEF a
  <2>2. b[1] = (IF a[1] # NULL THEN a[1] ELSE sink) /\ b[2] = (IF a[2] # NULL THEN a[2] ELSE <<dest, "assets">>)
    BY <1>1 DEF Filled
  <2> HIDE DEF b
  <2>3. b[1] = a[1]
    BY <2>1, <2>2
  <2>4. b[2] = a[2]
    BY <2>1, <2>2
  <2>5. QED
    BY <2>3, <2>4 DEF a, b
<1>2. CASE ~resolve
  <2>1. a = <<NULL, NULL>> /\ b = <<NULL, NULL>>
    BY <1>2 DEF Filled
  <2>2. QED
    BY <2>1
<1>3. QED
  BY <1>1, <1>2

\* A row as insert_export_job makes it is complete.
LEMMA FromDataComplete ==
  ASSUME NEW row, NEW data, FromData(row, data)
  PROVE  Complete(row)
<1> DEFINE a == Filled(data.resolve, data.asink, data.sink, data.adest, data.dest)
           b == Filled(data.resolve, a[1], data.sink, a[2], data.dest)
<1>1. b[1] = a[1] /\ b[2] = a[2]
  BY FilledAgain
<1>2. Filled(row["asset_resolution"], row["asset_datasink_name"], row["datasink_name"],
             row["asset_dataset"], row["destination_dataset"]) = b
  BY DEF FromData
<1>3. row["asset_datasink_name"] = a[1] /\ row["asset_dataset"] = a[2]
  BY DEF FromData
<1> HIDE DEF a, b
<1>4. QED
  BY <1>1, <1>2, <1>3 DEF Complete

\* Rows with the same settings are complete together.
LEMMA SameSettings ==
  ASSUME NEW r, NEW s, Settings(r) = Settings(s), Complete(s)
  PROVE  Complete(r)
<1>1. ASSUME NEW c \in SettingKeys PROVE r[c] = s[c]
  <2>1. [k \in SettingKeys |-> r[k]] = [k \in SettingKeys |-> s[k]]
    BY SettingsIs
  <2>2. [k \in SettingKeys |-> r[k]][c] = r[c] /\ [k \in SettingKeys |-> s[k]][c] = s[c]
    OBVIOUS
  <2>3. QED
    BY <2>1, <2>2
<1>2. /\ r["asset_resolution"] = s["asset_resolution"] /\ r["asset_datasink_name"] = s["asset_datasink_name"]
      /\ r["datasink_name"] = s["datasink_name"] /\ r["asset_dataset"] = s["asset_dataset"]
      /\ r["destination_dataset"] = s["destination_dataset"]
  BY <1>1 DEF SettingKeys
<1>3. QED
  BY <1>2 DEF Complete

\* A copy of the settings of a complete row, filled in, is that row's settings.
LEMMA CopiedSettings ==
  ASSUME NEW old, DOMAIN old = JobKeys, Complete(old), NEW row, FromData(row, Demo!Copied(Demo!Response(old)))
  PROVE  Settings(row) = Settings(old)
<1> DEFINE r == Demo!Response(old)
           data == Demo!Copied(r)
<1>1. \A c \in SettingKeys : r[c] = old[c]
  BY ResponseIs DEF SettingKeys, JobKeys
<1>2. /\ data.source = old["datasource_ref"] /\ data.sink = old["datasink_name"] /\ data.dest = old["destination_dataset"]
      /\ data.resolve = old["asset_resolution"] /\ data.asink = old["asset_datasink_name"]
      /\ data.adest = old["asset_dataset"] /\ data.hook = old["webhook_url"]
  <2>1. /\ data.source = r["datasource_ref"] /\ data.sink = r["datasink_name"] /\ data.dest = r["destination_dataset"]
        /\ data.resolve = r["asset_resolution"] /\ data.asink = r["asset_datasink_name"]
        /\ data.adest = r["asset_dataset"] /\ data.hook = r["webhook_url"]
    <3> HIDE DEF r
    <3>1. QED
      BY Zenon DEF Demo!Copied
  <2>2. {"datasource_ref", "datasink_name", "destination_dataset", "asset_resolution",
         "asset_datasink_name", "asset_dataset", "webhook_url"} \subseteq SettingKeys
    BY DEF SettingKeys
  <2> HIDE DEF data, r
  <2>3. QED
    BY <1>1, <2>1, <2>2
<1>3. FromData(row, data)
  OBVIOUS
<1> HIDE DEF data, r
<1>4. \A c \in SettingKeys : row[c] = old[c]
  <2>1. row["asset_datasink_name"] = old["asset_datasink_name"] /\ row["asset_dataset"] = old["asset_dataset"]
    BY <1>2, <1>3 DEF FromData, Complete
  <2>2. /\ row["datasource_ref"] = old["datasource_ref"] /\ row["datasink_name"] = old["datasink_name"]
        /\ row["destination_dataset"] = old["destination_dataset"] /\ row["asset_resolution"] = old["asset_resolution"]
        /\ row["webhook_url"] = old["webhook_url"]
    BY <1>2, <1>3 DEF FromData
  <2>3. QED
    BY <2>1, <2>2 DEF SettingKeys
<1>5. QED
  BY <1>4, SettingsIs

\* One job more, with the settings of a submission.
Adds(t, u, data) ==
  \E id : /\ id \notin DOMAIN t.export_jobs
          /\ DOMAIN u.export_jobs = DOMAIN t.export_jobs \cup {id}
          /\ \A i \in DOMAIN t.export_jobs : Settings(u.export_jobs[i]) = Settings(t.export_jobs[i])
          /\ FromData(u.export_jobs[id], data)

\* insert_export_job adds one job, with the settings of the submission, and changes no other.
LEMMA InsertAdds ==
  ASSUME NEW t, Tables(t), NEW data, NEW caller
  PROVE  Adds(t, Demo!InsertExportJob(t, data, caller).db, data)
<1> DEFINE dataset == IF data.adest # NULL THEN data.adest ELSE <<data.dest, "assets">>
           sink == IF data.asink # NULL THEN data.asink ELSE data.sink
           assets == IF data.resolve THEN <<sink, dataset>> ELSE <<NULL, NULL>>
           args == <<caller.org, caller.user, data.source, data.sink, data.dest, data.resolve,
                     assets[1], assets[2], data.hook, data.extract>>
           id == t.issued + 1
           e == t.export_jobs
           row == NewJob(t, args)
           more == More(e, id, row)
           u == Demo!InsertExportJob(t, data, caller).db
<1>1. Demo!InsertExportJob(t, data, caller) = Dispatch(t, InsertJob, args)
  BY SameStatements DEF Demo!InsertExportJob
<1>2. Dispatch(t, InsertJob, args) = JobInsert(t, args)
  <2> HIDE DEF args
  <2>1. QED
    BY Dispatched
<1>3. assets = Filled(data.resolve, data.asink, data.sink, data.adest, data.dest)
  BY DEF Filled
<1>4. FromData(row, data)
  <2>1. /\ args[3] = data.source /\ args[4] = data.sink /\ args[5] = data.dest /\ args[6] = data.resolve
        /\ args[7] = assets[1] /\ args[8] = assets[2] /\ args[9] = data.hook
    OBVIOUS
  <2> HIDE DEF args
  <2>2. /\ row["datasource_ref"] = args[3] /\ row["datasink_name"] = args[4] /\ row["destination_dataset"] = args[5]
        /\ row["asset_resolution"] = args[6] /\ row["asset_datasink_name"] = args[7] /\ row["asset_dataset"] = args[8]
        /\ row["webhook_url"] = args[9]
    BY DEF NewJob
  <2> HIDE DEF row, assets
  <2>3. QED
    BY <1>3, <2>1, <2>2 DEF FromData
<1>5. u.export_jobs = more
  <2> HIDE DEF args
  <2> DEFINE x == [t EXCEPT !.export_jobs = more]
             y == [x EXCEPT !.issued = id, !.now = @ + 1]
  <2>1. JobInsert(t, args) = Answer([Put(t, "export_jobs", id, row) EXCEPT !.issued = id, !.now = @ + 1], row)
    BY DEF JobInsert, NewJob
  <2> HIDE DEF row
  <2>2. Put(t, "export_jobs", id, row) = x
    BY DEF Put, More
  <2> HIDE DEF more
  <2>3. x.export_jobs = more /\ DOMAIN x = {"export_jobs", "connections", "sync_jobs", "issued", "now"}
    BY DEF Tables
  <2> HIDE DEF x, id
  <2>4. y.export_jobs = more
    BY <2>3
  <2>5. JobInsert(t, args) = Answer(y, row)
    BY <2>1, <2>2
  <2> HIDE DEF y
  <2>6. QED
    BY <1>1, <1>2, <2>4, <2>5, AnswerIs
<1>6. id \notin DOMAIN e
  BY DEF Tables, Rows
<1> HIDE DEF row, u, id, e
<1>7. DOMAIN more = DOMAIN e \cup {id} /\ more[id] = row
  BY DEF More, Over
<1>8. \A i \in DOMAIN e : more[i] = e[i]
  BY <1>6 DEF More, Over
<1> HIDE DEF more
<1>9. Adds(t, u, data)
  BY <1>4, <1>5, <1>6, <1>7, <1>8 DEF Adds, e
<1>10. QED
  BY <1>9 DEF u

\* create_export_job adds one job with the settings of the submission, or none.
LEMMA AdmitAdds ==
  ASSUME NEW t, Tables(t), NEW data, NEW caller
  PROVE  Keep(t, Demo!Admit(t, data, caller).db) \/ Adds(t, Demo!Admit(t, data, caller).db, data)
<1> DEFINE u == Demo!CountActiveJobsForOrg(t, caller.org)
           v == Demo!InsertExportJob(u.db, data, caller)
           w == Demo!Admit(t, data, caller)
<1>1. w = IF Demo!Full(u.res) THEN Demo!Status(u.db, "429") ELSE [v EXCEPT !.res = Demo!Response(@)]
  BY DEF Demo!Admit
<1>2. Tables(u.db)
  BY CountActiveJobsSame DEF Same
<1>3. Keep(t, u.db)
  BY KeepCount
<1>4. CASE Demo!Full(u.res)
  <2>1. w = Demo!Status(u.db, "429")
    BY <1>1, <1>4
  <2> HIDE DEF w, u
  <2>2. QED
    BY <1>3, <2>1, KeepStatus DEF w
<1>5. CASE ~Demo!Full(u.res)
  <2>1. w = [v EXCEPT !.res = Demo!Response(@)]
    BY <1>1, <1>5
  <2> HIDE DEF u
  <2>2. Adds(u.db, v.db, data)
    BY <1>2, InsertAdds
  <2>3. DOMAIN v = {"db", "res"}
    BY Inserted DEF Answer
  <2> HIDE DEF v, w
  <2>4. w.db = v.db
    BY <2>1, <2>3
  <2>5. Adds(t, v.db, data)
    BY <1>3, <2>2 DEF Adds, Keep
  <2>6. QED
    BY <2>4, <2>5 DEF w
<1>6. QED
  BY <1>4, <1>5

-----------------------------------------------------------------------------
\* Every step keeps retries like what they repeat.

\* What makes RetryRepeats inductive: the jobs of retryOf are there, and filling in the settings
\* of any job again changes nothing.
Repeating ==
  /\ Tables(db)
  /\ DOMAIN retryOf \subseteq Jobs
  /\ \A i \in DOMAIN retryOf : retryOf[i] \in Jobs
  /\ \A i \in Jobs : Complete(db.export_jobs[i])
  /\ RetryRepeats

\* Requests that insert no job change no setting.
LEMMA KeepRequest ==
  ASSUME NEW t, Tables(t), NEW r,
         r.op \in {"cancel", "connect", "patch", "remove", "tested", "begin", "counted", "opened", "paged", "closed", "raised", "wait"}
  PROVE  Keep(t, Demo!Perform(t, r).db)
<1> DEFINE u == Demo!Perform(t, r)
<1>1. CASE r.op = "cancel"
  <2>1. u = Demo!CancelExportJob(t, r.caller, r.job)
    BY <1>1 DEF Demo!Perform
  <2>2. QED
    BY <2>1, KeepCancel
<1>2. CASE r.op = "connect"
  <2> DEFINE args == <<r.owner, "label", "creds">>
  <2>1. u = Dispatch(t, InsertConnection, args)
    BY <1>2, SameStatements DEF Demo!Perform
  <2> HIDE DEF args
  <2>2. QED
    BY <2>1, Dispatched, KeepConnections
<1>3. CASE r.op = "patch"
  <2>1. u = Demo!PatchConnection(t, r.owner, r.conn, r.label, r.creds)
    BY <1>3 DEF Demo!Perform
  <2>2. \E st, args : u = ConnSelect(t, st, args) \/ u = ConnUpdate(t, st, args)
    <3>1. CASE r.label = NULL /\ r.creds = NULL
      <4>1. u = Dispatch(t, OwnConnection, <<r.conn, r.owner>>)
        BY <2>1, <3>1, ConnectionStatements DEF Demo!PatchConnection
      <4>2. QED
        BY <4>1, Dispatched
    <3>2. CASE ~(r.label = NULL /\ r.creds = NULL)
      <4>1. \E set, put, args : u = Dispatch(t, UpdateConnection(set, put), args) /\ (put = <<>> \/ put = Untested)
        BY <2>1, <3>2, ConnectionStatements DEF Demo!PatchConnection, Untested
      <4>2. \A put : put = <<>> \/ put = Untested => DOMAIN put \subseteq DOMAIN Resets
        BY DEF Untested, Resets
      <4>3. QED
        BY <4>1, <4>2, Dispatched
    <3>3. QED
      BY <3>1, <3>2
  <2> HIDE DEF u
  <2>3. Keep(t, u.db)
    BY <2>2, KeepConnections
  <2>4. QED
    BY <2>3 DEF u
<1>4. CASE r.op = "remove"
  <2> DEFINE d == Dispatch(t, DeleteConnection, <<r.conn, r.owner>>).db
             remove == Demo!RemoveConnection(t, r.owner, r.conn)
  <2>1. u = remove
    BY <1>4 DEF Demo!Perform
  <2>2. \/ remove = Demo!Status(d, "204") \/ remove = Demo!Status(t, "404") \/ remove = Demo!Status(t, "409")
    BY ConnectionStatements DEF Demo!RemoveConnection
  <2>3. Keep(t, d)
    BY Dispatched, KeepConnections
  <2> HIDE DEF d, remove, u
  <2>4. Keep(t, u.db)
    BY <2>1, <2>2, <2>3, KeepStatus, KeepIs
  <2>5. QED
    BY <2>4 DEF u
<1>5. CASE r.op = "tested"
  <2> DEFINE args == <<r.status, "then", r.conn>>
             d == Dispatch(t, SetTested, args).db
  <2>1. u = Demo!UpdateStatus(t, r.conn, r.status)
    BY <1>5 DEF Demo!Perform
  <2>2. u = Demo!Status(d, "200")
    BY <2>1, ConnectionStatements DEF Demo!UpdateStatus
  <2> HIDE DEF args
  <2>4. Keep(t, d)
    BY Dispatched, KeepConnections
  <2> HIDE DEF d, u
  <2>5. Keep(t, u.db)
    BY <2>2, <2>4, KeepStatus
  <2>6. QED
    BY <2>5 DEF u
<1>6. CASE r.op = "begin"
  <2>1. u = Demo!Begin(t, r.job)
    BY <1>6 DEF Demo!Perform
  <2>2. QED
    BY <2>1, KeepBegin
<1>7. CASE r.op = "counted"
  <2>1. u = Demo!Counted(t, r.job, r.total)
    BY <1>7 DEF Demo!Perform
  <2>2. QED
    BY <2>1, KeepCounted
<1>8. CASE r.op = "paged"
  <2>1. u = Demo!Paged(t, r.job, r.processed, r.total)
    BY <1>8 DEF Demo!Perform
  <2>2. QED
    BY <2>1, KeepPaged
<1>9. CASE r.op = "closed"
  <2>1. u = Demo!Closed(t, r.job)
    BY <1>9 DEF Demo!Perform
  <2>2. QED
    BY <2>1, KeepClosed
<1>10. CASE r.op = "raised"
  <2>1. u = Demo!Finished(t, r.job, "failed", "error")
    BY <1>10 DEF Demo!Perform
  <2>2. QED
    BY <2>1, KeepFinished
<1>11. CASE r.op = "wait"
  <2> DEFINE d == [t EXCEPT !.now = @ + StaleTimeout]
  <2>1. u = Answer(d, NULL)
    BY <1>11, SameOperators DEF Demo!Perform
  <2>2. d.export_jobs = t.export_jobs
    BY DEF Tables
  <2> HIDE DEF d, u
  <2>3. Keep(t, u.db)
    BY <2>1, <2>2, AnswerIs DEF Keep
  <2>4. QED
    BY <2>3 DEF u
<1>12. CASE r.op = "opened"
  <2>1. u = Demo!Opened(t, r.job, r.total, r.external)
    BY <1>12 DEF Demo!Perform
  <2>2. QED
    BY <2>1, KeepOpened
<1>13. QED
  BY <1>1, <1>2, <1>3, <1>4, <1>5, <1>6, <1>7, <1>8, <1>9, <1>10, <1>11, <1>12

\* So do the steps that serve them.
LEMMA KeepStep ==
  ASSUME NEW r, Tables(db), Serve(r),
         r.op \in {"cancel", "connect", "patch", "remove", "tested", "begin", "counted", "opened", "paged", "closed", "raised", "wait"}
  PROVE  Keep(db, db')
  BY KeepRequest DEF Serve, Answered

\* What a step does to the jobs and to retryOf: nothing, a job more, or a copy of a job and its entry.
LEMMA JobsStep ==
  ASSUME Tables(db), [Next]_vars
  PROVE  \/ Keep(db, db') /\ retryOf' = retryOf
         \/ \E data : Adds(db, db', data) /\ retryOf' = retryOf
         \/ \E i \in Jobs : /\ \/ Keep(db, db')
                               \/ Adds(db, db', Demo!Copied(Demo!Response(db.export_jobs[i])))
                            /\ retryOf' = Over([j \in Added |-> i], retryOf)
<1> DEFINE quiet == Keep(db, db') /\ retryOf' = retryOf
<1>1. ASSUME NEW c \in Callers, NEW data \in Submissions, Create(c, data)
      PROVE  quiet \/ (Adds(db, db', data) /\ retryOf' = retryOf)
  <2> DEFINE r == [op |-> "create", caller |-> c, data |-> data]
  <2>1. Serve(r) /\ retryOf' = retryOf
    BY <1>1 DEF Create
  <2>2. Demo!Perform(db, r) = Demo!Admit(db, data, c)
    BY DEF Demo!Perform
  <2>3. db' = Demo!Admit(db, data, c).db
    BY <2>1, <2>2 DEF Serve, Answered
  <2>4. QED
    BY <2>1, <2>3, AdmitAdds
<1>2. ASSUME NEW c \in Callers, NEW i \in Ids, Retry(c, i)
      PROVE  /\ i \in Jobs
             /\ Keep(db, db') \/ Adds(db, db', Demo!Copied(Demo!Response(db.export_jobs[i])))
             /\ retryOf' = Over([j \in Added |-> i], retryOf)
  <2> DEFINE r == [op |-> "retry", caller |-> c, job |-> i]
             row == Demo!GetExportJob(db, c, i)
             retry == Demo!RetryExportJob(db, c, i)
             data == Demo!Copied(Demo!Response(db.export_jobs[i]))
  <2>1. Serve(r) /\ i \in Jobs /\ retryOf' = Over([j \in Added |-> i], retryOf)
    BY <1>2 DEF Retry
  <2>2. Demo!Perform(db, r) = retry
    BY DEF Demo!Perform
  <2>3. db' = retry.db
    BY <2>1, <2>2 DEF Serve, Answered
  <2>4. retry = IF row = NoRow THEN Demo!Status(db, "404") ELSE IF row.status # "failed" THEN Demo!Status(db, "400")
                ELSE Demo!Admit(db, Demo!Copied(row), c)
    BY SameOperators DEF Demo!RetryExportJob
  <2>5. row = NoRow \/ row = Demo!Response(db.export_jobs[i])
    <3>1. Dispatch(db, Demo!ById("export_jobs"), <<i>>).res = Get(db.export_jobs, i)
      BY ByIdIs, JobStatements, AnswerIs
    <3>2. Get(db.export_jobs, i) = db.export_jobs[i]
      BY <2>1 DEF Get, Jobs
    <3>3. QED
      BY <3>1, <3>2, SameOperators DEF Demo!GetExportJob
  <2> HIDE DEF row, retry
  <2>6. Keep(db, db') \/ Adds(db, db', data)
    <3>1. retry = Demo!Status(db, "404") \/ retry = Demo!Status(db, "400") \/ retry = Demo!Admit(db, data, c)
      BY <2>4, <2>5
    <3> HIDE DEF data
    <3>2. ASSUME NEW code, retry = Demo!Status(db, code) PROVE Keep(db, db')
      BY <2>3, <3>2, KeepIs, KeepStatus
    <3>3. QED
      BY <2>3, <3>1, <3>2, AdmitAdds
  <2>7. QED
    BY <2>1, <2>6
<1>3. ASSUME NEW c \in Callers, NEW i \in Ids, Cancel(c, i) PROVE quiet
  BY <1>3, KeepStep DEF Cancel, Asks
<1>4. ASSUME NEW c \in Callers, NEW i \in Ids, Delete(c, i) PROVE quiet
  BY <1>4, KeepStep DEF Delete, Asks
<1>5. ASSUME NEW c \in Callers, NEW i \in Ids, NEW label, NEW creds, Patch(c, i, label, creds) PROVE quiet
  BY <1>5, KeepStep DEF Patch, Asks
<1>6. ASSUME NEW c \in Callers, Connect(c) PROVE quiet
  BY <1>6, KeepStep DEF Connect, Asks
<1>7. ASSUME NEW i \in Ids, Start(i) PROVE quiet
  BY <1>7, KeepStep DEF Start, Runs
<1>8. ASSUME NEW i \in Ids, Page(i) PROVE quiet
  BY <1>8, KeepStep DEF Page, Runs
<1>9. ASSUME NEW i \in Ids, Close(i) PROVE quiet
  BY <1>9, KeepStep DEF Close, Runs
<1>10. ASSUME NEW i \in Ids, Raise(i) PROVE quiet
  BY <1>10, KeepStep DEF Raise, Runs
<1>11. ASSUME NEW i \in Ids, NEW n \in Totals, CountTotal(i, n) PROVE quiet
  BY <1>11, KeepStep DEF CountTotal, Runs
<1>12. ASSUME NEW i \in Ids, NEW s, Tested(i, s) PROVE quiet
  BY <1>12, KeepStep DEF Tested, Asks
<1>13. ASSUME Wait PROVE quiet
  BY <1>13, KeepStep DEF Wait, Asks
<1>14. ASSUME NEW i \in Ids, NEW external, Open(i, external) PROVE quiet
  BY <1>14, KeepStep DEF Open, Runs
<1>15. CASE UNCHANGED vars
  BY <1>15, KeepIs DEF vars
<1> HIDE DEF quiet
<1>16. CASE Next
  BY <1>16, <1>1, <1>2, <1>3, <1>4, <1>5, <1>6, <1>7, <1>8, <1>9, <1>10, <1>11, <1>12, <1>13, <1>14 DEF Next, Resume, quiet
<1>17. QED
  BY <1>15, <1>16 DEF quiet

\* No job has been retried.
LEMMA RepeatingInit == Init => Repeating
<1> SUFFICES ASSUME Init PROVE Repeating
  OBVIOUS
<1>1. Tables(db)
  BY TablesInit
<1>2. retryOf = <<>> /\ db.export_jobs = <<>>
  BY DEF Init
<1>3. QED
  BY <1>1, <1>2 DEF Repeating, RetryRepeats, Jobs

\* Repeating is inductive: a retry copies the settings of a complete row.
LEMMA RepeatingStep == Repeating /\ [Next]_vars => Repeating'
<1> SUFFICES ASSUME Repeating, [Next]_vars PROVE Repeating'
  OBVIOUS
<1> DEFINE old == db.export_jobs
           new == db'.export_jobs
<1>1. Tables(db)'
  BY TablesStep DEF Repeating
<1>2. /\ DOMAIN retryOf \subseteq DOMAIN old
      /\ \A i \in DOMAIN retryOf : retryOf[i] \in DOMAIN old /\ Settings(old[i]) = Settings(old[retryOf[i]])
      /\ \A i \in DOMAIN old : Complete(old[i])
  BY DEF Repeating, RetryRepeats, Jobs
<1>3. ASSUME DOMAIN old \subseteq DOMAIN new, \A i \in DOMAIN old : Settings(new[i]) = Settings(old[i]),
             \A i \in DOMAIN new \ DOMAIN old : Complete(new[i]),
             \A i \in DOMAIN retryOf' :
               \/ i \in DOMAIN retryOf /\ retryOf'[i] = retryOf[i]
               \/ i \in DOMAIN new /\ retryOf'[i] \in DOMAIN old /\ Settings(new[i]) = Settings(old[retryOf'[i]])
      PROVE  Repeating'
  <2>1. \A i \in DOMAIN new : Complete(new[i])
    BY <1>2, <1>3, SameSettings
  <2> HIDE DEF old, new
  <2>2. \A i \in DOMAIN retryOf' : i \in DOMAIN new /\ retryOf'[i] \in DOMAIN new /\ Settings(new[i]) = Settings(new[retryOf'[i]])
    BY <1>2, <1>3
  <2>3. QED
    BY <1>1, <2>1, <2>2 DEF Repeating, RetryRepeats, Jobs, new
<1>4. CASE Keep(db, db') /\ retryOf' = retryOf
  BY <1>3, <1>4 DEF Keep
<1>5. ASSUME NEW data, Adds(db, db', data), retryOf' = retryOf PROVE Repeating'
  <2>1. PICK id : /\ id \notin DOMAIN old /\ DOMAIN new = DOMAIN old \cup {id}
                  /\ \A i \in DOMAIN old : Settings(new[i]) = Settings(old[i])
                  /\ FromData(new[id], data)
    BY <1>5 DEF Adds
  <2>2. Complete(new[id])
    BY <2>1, FromDataComplete
  <2> HIDE DEF old, new
  <2>3. QED
    BY <1>3, <1>5, <2>1, <2>2
<1>6. ASSUME NEW i \in Jobs, Keep(db, db'), retryOf' = Over([j \in Added |-> i], retryOf) PROVE Repeating'
  <2>1. Added = {}
    BY <1>6 DEF Added, Keep, Jobs
  <2>2. DOMAIN retryOf' = DOMAIN retryOf /\ \A j \in DOMAIN retryOf : retryOf'[j] = retryOf[j]
    BY <1>6, <2>1 DEF Over
  <2>3. QED
    BY <1>3, <1>6, <2>2 DEF Keep
<1>7. ASSUME NEW i \in Jobs, Adds(db, db', Demo!Copied(Demo!Response(db.export_jobs[i]))),
             retryOf' = Over([j \in Added |-> i], retryOf)
      PROVE  Repeating'
  <2>1. PICK id : /\ id \notin DOMAIN old /\ DOMAIN new = DOMAIN old \cup {id}
                  /\ \A k \in DOMAIN old : Settings(new[k]) = Settings(old[k])
                  /\ FromData(new[id], Demo!Copied(Demo!Response(old[i])))
    BY <1>7 DEF Adds
  <2>2. Added = {id}
    BY <2>1 DEF Added, Jobs
  <2>3. Complete(new[id])
    BY <2>1, FromDataComplete
  <2>4. i \in DOMAIN old /\ DOMAIN old[i] = JobKeys
    BY DEF Jobs, Repeating, Tables, Rows
  <2>5. Settings(new[id]) = Settings(old[i])
    BY <1>2, <2>1, <2>4, CopiedSettings
  <2>6. /\ DOMAIN retryOf' = DOMAIN retryOf \cup {id} /\ retryOf'[id] = i
        /\ \A j \in DOMAIN retryOf : j # id => retryOf'[j] = retryOf[j]
    BY <1>7, <2>2 DEF Over
  <2> HIDE DEF old, new
  <2>7. QED
    BY <1>3, <2>1, <2>3, <2>4, <2>5, <2>6
<1>8. QED
  BY <1>4, <1>5, <1>6, <1>7, JobsStep DEF Repeating

\* In demo mode a retry, and the retry of a retry, has the settings of the job it repeats, those among
\* them that were filled in when that one was inserted (retry_export_job over insert_export_job).
THEOREM DemoRetryRepeats == Spec => []RetryRepeats
<1>1. Repeating => RetryRepeats
  BY DEF Repeating
<1>2. QED
  BY <1>1, RepeatingInit, RepeatingStep, PTL DEF Spec
=============================================================================
