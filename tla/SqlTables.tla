----------------------------- MODULE SqlTables -----------------------------
(***************************************************************************)
(* A pool that does what the SQL of the statements says: the database, as  *)
(* its callers see it.                                                     *)
(***************************************************************************)
EXTENDS Statements

Defaults(table) ==
  IF table = "connections" THEN [status |-> "untested", last_tested_at |-> NULL]
  ELSE [status |-> "pending", records_total |-> NULL, records_processed |-> 0, error_message |-> NULL,
        started_at |-> NULL, completed_at |-> NULL, last_heartbeat_at |-> NULL, external_dataset_id |-> NULL]

\* A heartbeat that is not there is older than any; created_at always is.
Satisfies(st, args, row) ==
  /\ \A c \in DOMAIN st.where : row[c] = args[st.where[c]]
  /\ \A c \in DOMAIN st.among : row[c] \in st.among[c]
  /\ \A c \in DOMAIN st.before : row[c] = NULL \/ row[c] < args[st.before[c]]

Chosen(tables, st, args) ==
  LET rows == tables[st.table] IN {i \in DOMAIN rows : Satisfies(st, args, rows[i])}

Assigned(st, args, row) == Over(Bound(st.set, args), Over(st.put, row))

Only(rows, ids) == IF ids = {} THEN NoRow ELSE rows[CHOOSE i \in ids : TRUE]

SqlInsert(tables, st, args) ==
  LET id == tables.issued + 1
      new == Over(Bound(st.set, args), Over(Defaults(st.table), [id |-> id, created_at |-> tables.now]))
  \* Two rows are not created in the same instant.
  IN Answer([tables EXCEPT ![st.table] = Over([i \in {id} |-> new], @), !.issued = id, !.now = @ + 1], new)

SqlSelect(tables, st, args) ==
  LET rows == tables[st.table]
      ids == Chosen(tables, st, args)
      order == Newest(ids, Created(rows, ids))
      n == Len(args)
  IN Answer(tables,
       CASE st.what = "count"  -> Cardinality(ids)
         [] st.what = "list"   -> RowsOf(rows, IF st.paged THEN Window(order, args[n - 1], args[n]) ELSE order)
         [] st.what = "status" -> IF ids = {} THEN NULL ELSE Only(rows, ids).status
         [] OTHER              -> Only(rows, ids))

SqlUpdate(tables, st, args) ==
  LET ids == Chosen(tables, st, args)
      rows == tables[st.table]
      new == [i \in DOMAIN rows |-> IF i \in ids THEN Assigned(st, args, rows[i]) ELSE rows[i]]
  IN Answer([tables EXCEPT ![st.table] = new],
            IF st.what = "returning" THEN Only(new, ids) ELSE Cardinality(ids))

SqlDelete(tables, st, args) ==
  LET ids == Chosen(tables, st, args)
      rows == tables[st.table]
  IN Answer([tables EXCEPT ![st.table] = [i \in DOMAIN rows \ ids |-> rows[i]]], Cardinality(ids))

Sql(tables, st, args) ==
  CASE st.verb = "insert" -> SqlInsert(tables, st, args)
    [] st.verb = "select" -> SqlSelect(tables, st, args)
    [] st.verb = "update" -> SqlUpdate(tables, st, args)
    [] st.verb = "delete" -> SqlDelete(tables, st, args)
=============================================================================
