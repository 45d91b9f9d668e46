-------------------------------- MODULE Tools --------------------------------
(***************************************************************************)
(* The tools each backend declares (crates/{mysql,postgres,sqlite}/src/    *)
(* tools) and the router that is built from them (crates/server/src/       *)
(* tool.rs): what a tool is called with, the hints it gives a client, and  *)
(* in which modes it is there at all.                                      *)
(***************************************************************************)

(* ToolAnnotations. *)
Hints(readOnly, destructive, idempotent, openWorld) ==
  [readOnly |-> readOnly, destructive |-> destructive, idempotent |-> idempotent, openWorld |-> openWorld]
Lists == Hints(TRUE, FALSE, TRUE, FALSE)
Queries == Hints(TRUE, FALSE, TRUE, TRUE)
Creates == Hints(FALSE, FALSE, FALSE, FALSE)
Drops == Hints(FALSE, TRUE, FALSE, FALSE)
Writes == Hints(FALSE, TRUE, FALSE, TRUE)

(* A tool of the whole server, and one of a database, which has a variant  *)
(* without `database` for a pinned one.                                    *)
Tool(name, hints, pinned, params) == [name |-> name, hints |-> hints, pinned |-> pinned, params |-> params]
Crossing(name, hints, params) == {Tool(name, hints, FALSE, params)}
PerDatabase(name, hints, params) ==
  {Tool(name, hints, TRUE, params), Tool(name, hints, FALSE, params \cup {"database"})}
OfFile(name, hints, params) == {Tool(name, hints, TRUE, params)}

Filtered == {"cursor", "search", "detailed"}

-----------------------------------------------------------------------------
(* MySQL and MariaDB *)
MysqlListDatabases == Crossing("listDatabases", Lists, {"cursor"})
MysqlListTables == PerDatabase("listTables", Lists, Filtered)
MysqlListViews == PerDatabase("listViews", Lists, Filtered)
MysqlListTriggers == PerDatabase("listTriggers", Lists, Filtered)
MysqlListFunctions == PerDatabase("listFunctions", Lists, Filtered)
MysqlListProcedures == PerDatabase("listProcedures", Lists, Filtered)
MysqlReadQuery == PerDatabase("readQuery", Queries, {"query", "cursor"})
MysqlExplainQuery == PerDatabase("explainQuery", Queries, {"query", "analyze"})
MysqlCreateDatabase == Crossing("createDatabase", Creates, {"database"})
MysqlDropDatabase == Crossing("dropDatabase", Drops, {"database"})
MysqlDropTable == PerDatabase("dropTable", Drops, {"table"})
MysqlWriteQuery == PerDatabase("writeQuery", Writes, {"query"})

(* PostgreSQL *)
PgListDatabases == Crossing("listDatabases", Lists, {"cursor"})
PgListTables == PerDatabase("listTables", Lists, Filtered)
PgListViews == PerDatabase("listViews", Lists, Filtered)
PgListTriggers == PerDatabase("listTriggers", Lists, Filtered)
PgListFunctions == PerDatabase("listFunctions", Lists, Filtered)
PgListProcedures == PerDatabase("listProcedures", Lists, Filtered)
PgListMaterializedViews == PerDatabase("listMaterializedViews", Lists, Filtered)
PgReadQuery == PerDatabase("readQuery", Queries, {"query", "cursor"})
PgExplainQuery == PerDatabase("explainQuery", Queries, {"query", "analyze"})
PgCreateDatabase == Crossing("createDatabase", Creates, {"database"})
PgDropDatabase == Crossing("dropDatabase", Drops, {"database"})
PgDropTable == PerDatabase("dropTable", Drops, {"table", "cascade"})
PgWriteQuery == PerDatabase("writeQuery", Writes, {"query"})

(* SQLite *)
SqliteListTables == OfFile("listTables", Lists, Filtered)
SqliteListViews == OfFile("listViews", Lists, {"cursor"})
SqliteListTriggers == OfFile("listTriggers", Lists, Filtered)
SqliteReadQuery == OfFile("readQuery", Queries, {"query", "cursor"})
SqliteExplainQuery == OfFile("explainQuery", Queries, {"query"})
SqliteDropTable == OfFile("dropTable", Drops, {"table"})
SqliteWriteQuery == OfFile("writeQuery", Writes, {"query"})

-----------------------------------------------------------------------------
(* TOOLS of each handler: the tools, and those hidden in read-only mode.   *)
MysqlTools ==
  [tools |-> MysqlListDatabases \cup MysqlListTables \cup MysqlListViews \cup MysqlListTriggers
             \cup MysqlListFunctions \cup MysqlListProcedures \cup MysqlReadQuery \cup MysqlExplainQuery,
   gated |-> MysqlCreateDatabase \cup MysqlDropDatabase \cup MysqlDropTable \cup MysqlWriteQuery]

PgTools ==
  [tools |-> PgListDatabases \cup PgListTables \cup PgListViews \cup PgListTriggers
             \cup PgListFunctions \cup PgListProcedures \cup PgListMaterializedViews
             \cup PgReadQuery \cup PgExplainQuery,
   gated |-> PgCreateDatabase \cup PgDropDatabase \cup PgDropTable \cup PgWriteQuery]

SqliteTools ==
  [tools |-> SqliteListTables \cup SqliteListViews \cup SqliteListTriggers \cup SqliteReadQuery \cup SqliteExplainQuery,
   gated |-> SqliteWriteQuery \cup SqliteDropTable]

(* ToolRouter::from_specs *)
FromSpecs(specs, readOnly, pinned) ==
  {t \in specs.tools \cup specs.gated : (t \in specs.gated => ~readOnly) /\ t.pinned = pinned}

(* The handlers' `new`. *)
Router(backend, readOnly, pinned) ==
  CASE backend = "mysql" -> FromSpecs(MysqlTools, readOnly, pinned)
    [] backend = "postgres" -> FromSpecs(PgTools, readOnly, pinned)
    [] backend = "sqlite" -> FromSpecs(SqliteTools, readOnly, TRUE)
=============================================================================
