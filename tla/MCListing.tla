----------------------------- MODULE MCListing -----------------------------
(* Listing for TLC: three objects of each kind come and go, two of them of *)
(* one name where the backend allows it, beside others that the tools must *)
(* not list.                                                               *)
EXTENDS Listing

CONSTANTS db1, db2

Object(id, kind, db, schema, name, on, cols, flags) ==
  [id |-> id, kind |-> kind, db |-> db, schema |-> schema, name |-> name, on |-> on, cols |-> cols, flags |-> flags]
In(id, kind, name) == Object(id, kind, db1, "public", name, 0, {}, {})
On(t, id, kind, name, cols) == Object(id, kind, db1, "public", name, t, cols, {})
Three(id, kind, shared) == {In(id, kind, 1), In(id + 1, kind, 2), In(id + 2, kind, IF shared THEN 2 ELSE 3)}
ThreeViews == {In(61, "view", 11), In(62, "view", 12), In(63, "view", 13)}

(* Tables 1 to 3 come and go with their parts, whose names they share; the *)
(* listed triggers are on table 4, which stays, and table 5.              *)
Tables(kind) == {In(1, "table", 1), In(2, kind, 2), In(3, "table", 3), In(4, "table", 4), In(5, "table", 5)}
Parts ==
  {On(1, 11, "column", 1, {}), On(1, 12, "primary", 1, {1}), On(1, 13, "unique", 2, {1, 2}), On(1, 14, "check", 3, {}),
   On(1, 15, "index", 1, {}), On(1, 16, "trigger", 7, {}),
   On(2, 17, "primary", 1, {3}), On(2, 18, "foreign", 4, {4}), On(2, 19, "index", 1, {}), On(2, 20, "trigger", 8, {})}
Clashes ==  \* MariaDB: a CHECK of the same name on another table; foreign keys, and two keys, of one name
  {On(2, 24, "check", 3, {}), On(1, 28, "foreign", 4, {1}), On(4, 29, "unique", 3, {6}), On(5, 30, "check", 10, {}),
   On(5, 35, "unique", 11, {8}), On(5, 36, "foreign", 11, {9})}
Triggers(shared) ==
  {On(4, 21, "trigger", 1, {}), On(5, 22, "trigger", IF shared THEN 1 ELSE 2, {}), On(4, 23, "trigger", 3, {})}
Databases ==
  {Object(25, "database", db1, "", 1, 0, {}, {}), Object(26, "database", db2, "", 2, 0, {}, {}),
   Object(27, "database", "db3", "", 3, 0, {}, {})}
Other ==  \* another database, with a table of the name of table 1
  {Object(31, "table", db2, "public", 1, 0, {}, {}), Object(32, "unique", db2, "public", 2, 31, {5}, {}),
   Object(33, "trigger", db2, "public", 3, 31, {}, {}), Object(34, "view", db2, "public", 2, 0, {}, {})}
Hidden ==
  {Object(41, "trigger", db1, "public", 4, 1, {}, {"internal"}), Object(42, "column", db1, "public", 2, 1, {}, {"dropped"}),
   Object(43, "table", db1, "private", 2, 0, {}, {}), Object(44, "view", db1, "private", 3, 0, {}, {}),
   Object(45, "database", "template", "", 4, 0, {}, {"template"}), In(46, "aggregate", 1)}
InMain(objects) == {[o EXCEPT !.schema = "main"] : o \in objects}
Reserved ==
  {Object(51, "table", db1, "main", 6, 0, {}, {"reserved"}), Object(52, "shadow", db1, "main", 5, 0, {}, {}),
   Object(53, "trigger", db1, "main", 9, 4, {}, {"no sql"})}

MCWorld ==
  [mysql |-> Tables("partitioned") \cup Parts \cup Clashes \cup Triggers(FALSE) \cup Databases \cup Other
               \cup ThreeViews \cup Three(64, "function", FALSE) \cup Three(67, "procedure", FALSE),
   postgres |-> Tables("partitioned") \cup Parts \cup Triggers(TRUE) \cup Databases \cup Other \cup Hidden
               \cup ThreeViews \cup Three(64, "function", TRUE) \cup Three(67, "procedure", TRUE)
               \cup {In(71, "matview", 14), In(72, "matview", 15), In(73, "matview", 16)},
   sqlite |-> InMain(Tables("virtual") \cup Parts \cup Triggers(FALSE) \cup ThreeViews) \cup Reserved]
MCChanging ==
  [listDatabases |-> 25..27, listTables |-> 1..3, listViews |-> 61..63, listMaterializedViews |-> 71..73,
   listTriggers |-> {5} \cup 21..23, listFunctions |-> 64..66, listProcedures |-> 67..69]
Backends == DOMAIN MCWorld
ListTools == DOMAIN MCChanging
(* The pinned database, the one named, the search, detailed, page size.    *)
Modes ==
  {<<db1, Absent, Absent, FALSE, 1>>, <<db1, Absent, Absent, TRUE, 2>>, <<db1, Absent, "pattern", TRUE, 1>>,
   <<Absent, db1, Absent, FALSE, 1>>, <<Absent, db1, Blank, FALSE, 2>>, <<Absent, Absent, Absent, FALSE, 1>>}
MCRequests ==
  {r \in {[backend |-> b, tool |-> t, pinned |-> m[1], database |-> m[2], search |-> m[3], detailed |-> m[4], size |-> m[5]] :
            b \in Backends, t \in ListTools, m \in Modes} : Accepted(r)}
=============================================================================
