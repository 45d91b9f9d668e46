------------------------------ MODULE Catalogue ------------------------------
(***************************************************************************)
(* The catalogue queries of the list tools (BRIEF_SQL, DETAILED_SQL and    *)
(* SQL of crates/{mysql,postgres,sqlite}/src/tools/list_*.rs): which       *)
(* objects of the server each selects, in which order, under which key,    *)
(* and which parts it shows with a table. The columns a query projects     *)
(* from an object's own row are left out.                                  *)
(*                                                                         *)
(* An object of the server is a record: `id` is its OID, `name` the place  *)
(* of its name in the alphabet, `on` the id of the table it belongs to or  *)
(* 0, `cols` the columns of a key, and `flags` what hides it.              *)
(***************************************************************************)
EXTENDS Integers

CONSTANTS Matching,  \* the names that the search pattern matches
          User        \* the database named like PostgreSQL's user

Absent == "absent"  \* an argument that is left out
Blank == "blank"    \* one of white space only

(* The database of the default pool, and the one of a request, which names *)
(* a database or not. An unpinned MySQL has no default.                    *)
Default(r) == IF r.pinned # Absent THEN r.pinned ELSE IF r.backend = "mysql" THEN Absent ELSE User
Database(r) == IF r.database \in {Absent, Blank} THEN Default(r) ELSE r.database

(* list_entries drops a blank pattern. *)
Pattern(r) == IF r.search = Blank THEN Absent ELSE r.search
Like(o, r) == Pattern(r) # Absent => o.name \in Matching

(* A row: the object, what ORDER BY compares, the name column, the parts.  *)
Row(o, tie, name, parts) == [of |-> o, by |-> <<o.name, tie>>, name |-> name, parts |-> parts]
Plain(objects) == {Row(o, 0, <<o.name>>, {}) : o \in objects}

(* A part of a table, and the constraints whose rows of the catalogue were *)
(* joined for it: another one repeats it or adds to its columns.           *)
Part(p, cols, joined) == [kind |-> p.kind, name |-> p.name, cols |-> cols, from |-> {q.id : q \in joined}]
Own(p) == Part(p, p.cols, {p})

TableKinds == {"table", "partitioned", "virtual"}
Keys == {"primary", "unique", "foreign"}
NameOfTable(cat, o) == (CHOOSE t \in cat : t.id = o.on).name

-----------------------------------------------------------------------------
(* MySQL and MariaDB: information_schema, a schema being a database. It    *)
(* knows the table of a part by its name.                                  *)
Mysql(cat, r, kinds) == {o \in cat : o.kind \in kinds /\ o.db = Database(r) /\ Like(o, r)}
MysqlOn(cat, t) == {p \in cat : p.on # 0 /\ p.db = t.db /\ NameOfTable(cat, p) = t.name}

MysqlDatabases(cat, r) == Plain({o \in cat : o.kind = "database"})
MysqlViews(cat, r) == Plain(Mysql(cat, r, {"view"}))
MysqlTriggers(cat, r) == Plain(Mysql(cat, r, {"trigger"}))
MysqlFunctions(cat, r) == Plain(Mysql(cat, r, {"function"}))
MysqlProcedures(cat, r) == Plain(Mysql(cat, r, {"procedure"}))

(* columns_info, constraints_info with its three branches, indexes_info    *)
(* and triggers_info. A key has the columns that KEY_COLUMN_USAGE has      *)
(* under its name and table; the rules of a foreign key are joined by its  *)
(* name alone, and so is a CHECK to the tables it may be on.               *)
MysqlParts(cat, t) ==
  LET on == MysqlOn(cat, t)
      usage(p) == {q \in on : q.kind \in Keys /\ q.name = p.name}
      rules(p) == {q \in cat : "foreign" = p.kind /\ "foreign" = q.kind /\ q.db = t.db /\ q.name = p.name}
      tables(p) == {q \in on : q.kind \in Keys \cup {"check"} /\ q.name = p.name}
  IN {Part(p, UNION {q.cols : q \in usage(p)}, usage(p) \cup rules(p)) : p \in {q \in on : q.kind \in Keys}}
     \cup {Own(p) : p \in {q \in on : q.kind \in {"column", "index", "trigger"}}}
     \cup {Part(p, {}, {p} \cup tables(p)) : p \in {q \in cat : q.kind = "check" /\ q.db = t.db /\ tables(q) # {}}}

MysqlTables(cat, r) ==
  {Row(t, 0, <<t.name>>, IF r.detailed THEN MysqlParts(cat, t) ELSE {}) :
     t \in Mysql(cat, r, {"table", "partitioned"})}

-----------------------------------------------------------------------------
(* PostgreSQL: the catalogue of the database that the pool is connected    *)
(* to, schema public.                                                      *)
Pg(cat, r, kinds) ==
  {o \in cat : o.kind \in kinds /\ o.db = Database(r) /\ o.schema = "public" /\ Like(o, r)}

(* pg_database is shared by all databases. *)
PgDatabases(cat, r) == Plain({o \in cat : o.kind = "database" /\ "template" \notin o.flags})
PgViews(cat, r) == Plain(Pg(cat, r, {"view"}))
PgMaterializedViews(cat, r) == Plain(Pg(cat, r, {"matview"}))

(* As if a trigger's name were thought to be enough to order by. *)
PgTriggersByName(cat, r) == Plain({o \in Pg(cat, r, {"trigger"}) : "internal" \notin o.flags})
PgTriggers(cat, r) ==
  {Row(o, NameOfTable(cat, o), <<o.name>>, {}) :
     o \in {p \in Pg(cat, r, {"trigger"}) : "internal" \notin p.flags}}

(* Overloads share a name; the detailed queries add the arguments.         *)
PgRoutines(cat, r, kind) ==
  {Row(o, o.id, IF r.detailed THEN <<o.name, o.id>> ELSE <<o.name>>, {}) : o \in Pg(cat, r, {kind})}
PgFunctions(cat, r) == PgRoutines(cat, r, "function")
PgProcedures(cat, r) == PgRoutines(cat, r, "procedure")

PgParts(cat, t) ==
  {Own(p) :
     p \in {q \in cat : q.on = t.id /\ q.kind \in Keys \cup {"column", "check", "index", "trigger"}
                        /\ q.flags \cap {"internal", "dropped"} = {}}}
PgTables(cat, r) ==
  {Row(t, 0, <<t.name>>, IF r.detailed THEN PgParts(cat, t) ELSE {}) :
     t \in Pg(cat, r, {"table", "partitioned"})}

-----------------------------------------------------------------------------
(* SQLite: the schema main of the one file, without names it reserves.     *)
Sqlite(cat, kinds) ==
  {o \in cat : o.kind \in kinds /\ o.schema = "main" /\ "reserved" \notin o.flags}

SqliteViews(cat, r) == Plain(Sqlite(cat, {"view"}))
SqliteTriggers(cat, r) ==
  Plain({o \in Sqlite(cat, {"trigger"}) : Like(o, r) /\ (r.detailed => "no sql" \notin o.flags)})

(* The pragmas of a table, which do not have its CHECKs; the triggers by   *)
(* the name of their table.                                                *)
SqliteParts(cat, t) ==
  {Own(p) : p \in {q \in cat : q.on = t.id /\ q.kind \in Keys \cup {"column", "index"}}}
  \cup {Own(p) : p \in {q \in cat : q.kind = "trigger" /\ q.schema = "main" /\ NameOfTable(cat, q) = t.name}}
SqliteTables(cat, r) ==
  {Row(t, 0, <<t.name>>, IF r.detailed THEN SqliteParts(cat, t) ELSE {}) :
     t \in {o \in Sqlite(cat, {"table", "virtual"}) : Like(o, r)}}

-----------------------------------------------------------------------------
(* The query of a request. *)
MysqlSelected(cat, r) ==
  CASE r.tool = "listDatabases" -> MysqlDatabases(cat, r)
    [] r.tool = "listTables" -> MysqlTables(cat, r)
    [] r.tool = "listViews" -> MysqlViews(cat, r)
    [] r.tool = "listTriggers" -> MysqlTriggers(cat, r)
    [] r.tool = "listFunctions" -> MysqlFunctions(cat, r)
    [] r.tool = "listProcedures" -> MysqlProcedures(cat, r)
PgSelected(cat, r) ==
  CASE r.tool = "listDatabases" -> PgDatabases(cat, r)
    [] r.tool = "listTables" -> PgTables(cat, r)
    [] r.tool = "listViews" -> PgViews(cat, r)
    [] r.tool = "listMaterializedViews" -> PgMaterializedViews(cat, r)
    [] r.tool = "listTriggers" -> PgTriggers(cat, r)
    [] r.tool = "listFunctions" -> PgFunctions(cat, r)
    [] r.tool = "listProcedures" -> PgProcedures(cat, r)
SqliteSelected(cat, r) ==
  CASE r.tool = "listTables" -> SqliteTables(cat, r)
    [] r.tool = "listViews" -> SqliteViews(cat, r)
    [] r.tool = "listTriggers" -> SqliteTriggers(cat, r)
Selected(cat, r) ==
  CASE r.backend = "mysql" -> MysqlSelected(cat, r)
    [] r.backend = "postgres" -> PgSelected(cat, r)
    [] r.backend = "sqlite" -> SqliteSelected(cat, r)
=============================================================================
