---------------------------- MODULE ListingProofs ----------------------------
(***************************************************************************)
(* Theorems about Listing, for every list tool of every server, whatever   *)
(* objects there are, however large the pages are and however many changes *)
(* others make.                                                            *)
(***************************************************************************)
EXTENDS Listing, FiniteSetTheorems, SequenceTheorems, TLAPS

-----------------------------------------------------------------------------
(* The places of the elements of a finite set in a strict order of it.     *)

StrictOrder(S, R) ==
  /\ \A a \in S : <<a, a>> \notin R
  /\ \A a, b \in S : a = b \/ <<a, b>> \in R \/ <<b, a>> \in R
  /\ \A a, b, c \in S : <<a, b>> \in R /\ <<b, c>> \in R => <<a, c>> \in R
Below(S, R, a) == {b \in S : <<b, a>> \in R}
Rank(S, R, a) == Cardinality(Below(S, R, a))

Placed(S, R) ==
  /\ \A a \in S : Rank(S, R, a) \in 0..(Cardinality(S) - 1)
  /\ \A a, b \in S : <<a, b>> \in R => Rank(S, R, a) < Rank(S, R, b)
  /\ \A a, b \in S : Rank(S, R, a) = Rank(S, R, b) => a = b
  /\ \A k \in 0..(Cardinality(S) - 1) : \E a \in S : Rank(S, R, a) = k

(* Every element has a place of its own, and every place is taken.         *)
LEMMA Places ==
  ASSUME NEW S, NEW R, IsFiniteSet(S), StrictOrder(S, R)
  PROVE  Placed(S, R)
<1> DEFINE n == Cardinality(S)
           rank == [a \in S |-> Rank(S, R, a)]
<1>1. n \in Nat
  BY FS_CardinalityType
<1>2. ASSUME NEW a \in S PROVE Rank(S, R, a) \in 0..(n - 1)
  <2>1. Below(S, R, a) \in SUBSET S /\ Below(S, R, a) # S
    BY DEF Below, StrictOrder
  <2>2. IsFiniteSet(Below(S, R, a)) /\ Rank(S, R, a) <= n /\ Rank(S, R, a) # n
    BY <2>1, FS_Subset DEF Rank
  <2>3. Rank(S, R, a) \in Nat
    BY <2>2, FS_CardinalityType DEF Rank
  <2>4. QED BY <1>1, <2>2, <2>3
<1>3. ASSUME NEW a \in S, NEW b \in S, <<a, b>> \in R PROVE Rank(S, R, a) < Rank(S, R, b)
  <2>1. Below(S, R, a) \in SUBSET Below(S, R, b) /\ a \in Below(S, R, b) /\ a \notin Below(S, R, a)
    BY <1>3 DEF Below, StrictOrder
  <2>2. IsFiniteSet(Below(S, R, b))
    BY FS_Subset DEF Below
  <2>3. Rank(S, R, a) <= Rank(S, R, b) /\ Rank(S, R, a) # Rank(S, R, b)
    BY <2>1, <2>2, FS_Subset DEF Rank
  <2>4. QED BY <1>2, <2>3
<1>4. ASSUME NEW a \in S, NEW b \in S, Rank(S, R, a) = Rank(S, R, b) PROVE a = b
  <2>1. ~(<<a, b>> \in R) /\ ~(<<b, a>> \in R)
    BY <1>2, <1>3, <1>4
  <2>2. QED BY <2>1 DEF StrictOrder
<1>5. rank \in Injection(S, 0..(n - 1))
  BY <1>2, <1>4 DEF Injection, IsInjective
<1>6. IsFiniteSet(0..(n - 1)) /\ Cardinality(0..(n - 1)) = n
  BY <1>1, FS_Interval
<1>7. rank \in Surjection(S, 0..(n - 1))
  BY <1>5, <1>6, FS_Injection
<1>8. \A k \in 0..(n - 1) : \E a \in S : Rank(S, R, a) = k
  BY <1>7 DEF Surjection
<1>9. QED BY <1>2, <1>3, <1>4, <1>8 DEF Placed

(* There are as many elements before a place as the place says.            *)
LEMMA FirstPlaces ==
  ASSUME NEW S, NEW R, IsFiniteSet(S), StrictOrder(S, R), NEW m \in 0..Cardinality(S)
  PROVE  Cardinality({a \in S : Rank(S, R, a) < m}) = m
<1> DEFINE T == {a \in S : Rank(S, R, a) < m}
           rank == [a \in T |-> Rank(S, R, a)]
<1>0. Placed(S, R)
  BY Places
<1>1. Cardinality(S) \in Nat
  BY FS_CardinalityType
<1>2. rank \in [T -> 0..(m - 1)]
  BY <1>0, <1>1 DEF Placed
<1>3. \A a, b \in T : rank[a] = rank[b] => a = b
  BY <1>0 DEF Placed
<1>4. \A k \in 0..(m - 1) : \E a \in T : rank[a] = k
  BY <1>0, <1>1 DEF Placed
<1>5. rank \in Bijection(T, 0..(m - 1))
  BY <1>2, <1>3, <1>4 DEF Bijection, Injection, IsInjective, Surjection
<1>6. IsFiniteSet(T)
  BY FS_Subset
<1>7. Cardinality(0..(m - 1)) = Cardinality(T)
  BY <1>5, <1>6, FS_Bijection DEF ExistsBijection
<1>8. Cardinality(0..(m - 1)) = m
  BY <1>1, FS_Interval
<1>9. QED BY <1>7, <1>8

-----------------------------------------------------------------------------
(* What a list tool selects. *)

(* Only PostgreSQL has materialized views and only servers have databases  *)
(* and routines; the tools for databases, and SQLite's for views, cannot   *)
(* search.                                                                 *)
LEMMA ListTools ==
  \A p \in BOOLEAN :
    /\ \A t \in Router("mysql", FALSE, p) :
         t.name # "listMaterializedViews" /\ (t.name = "listDatabases" => "search" \notin t.params)
    /\ \A t \in Router("postgres", FALSE, p) : t.name = "listDatabases" => "search" \notin t.params
    /\ \A t \in Router("sqlite", FALSE, p) :
         /\ t.name \notin {"listDatabases", "listMaterializedViews", "listFunctions", "listProcedures"}
         /\ t.name = "listViews" => "search" \notin t.params
<1> USE DEF PerDatabase, Crossing, OfFile, Tool, Filtered
<1> DEFINE My(t) == t.name # "listMaterializedViews" /\ (t.name = "listDatabases" => "search" \notin t.params)
           Pgs(t) == t.name = "listDatabases" => "search" \notin t.params
           Lite(t) == /\ t.name \notin {"listDatabases", "listMaterializedViews", "listFunctions", "listProcedures"}
                      /\ t.name = "listViews" => "search" \notin t.params
<1>1. \A t \in MysqlTools.tools : My(t)
  BY DEF MysqlTools, MysqlListDatabases, MysqlListTables, MysqlListViews, MysqlListTriggers, MysqlListFunctions,
         MysqlListProcedures, MysqlReadQuery, MysqlExplainQuery
<1>2. \A t \in MysqlTools.gated : My(t)
  BY DEF MysqlTools, MysqlCreateDatabase, MysqlDropDatabase, MysqlDropTable, MysqlWriteQuery
<1>3. \A t \in PgTools.tools : Pgs(t)
  BY DEF PgTools, PgListDatabases, PgListTables, PgListViews, PgListTriggers, PgListFunctions,
         PgListProcedures, PgListMaterializedViews, PgReadQuery, PgExplainQuery
<1>4. \A t \in PgTools.gated : Pgs(t)
  BY DEF PgTools, PgCreateDatabase, PgDropDatabase, PgDropTable, PgWriteQuery
<1>5. \A t \in SqliteTools.tools : Lite(t)
  BY DEF SqliteTools, SqliteListTables, SqliteListViews, SqliteListTriggers, SqliteReadQuery, SqliteExplainQuery
<1>6. \A t \in SqliteTools.gated : Lite(t)
  BY DEF SqliteTools, SqliteDropTable, SqliteWriteQuery
<1> HIDE DEF My, Pgs, Lite
<1>7. ASSUME NEW p \in BOOLEAN
      PROVE  /\ \A t \in Router("mysql", FALSE, p) : My(t)
             /\ \A t \in Router("postgres", FALSE, p) : Pgs(t)
             /\ \A t \in Router("sqlite", FALSE, p) : Lite(t)
  BY <1>1, <1>2, <1>3, <1>4, <1>5, <1>6 DEF Router, FromSpecs
<1>8. QED BY <1>7 DEF My, Pgs, Lite

(* What the client asks for is asked of a server that has it.              *)
LEMMA RequestFacts ==
  ASSUME request \in Requests
  PROVE  /\ request.backend \in DOMAIN World \cap {"mysql", "postgres", "sqlite"}
         /\ request.tool \in DOMAIN KindsOf /\ request.size \in Nat \ {0}
         /\ request.tool = "listMaterializedViews" => request.backend = "postgres"
         /\ request.tool \in {"listDatabases", "listFunctions", "listProcedures"} => request.backend # "sqlite"
         /\ request.tool = "listDatabases" \/ (request.tool = "listViews" /\ request.backend = "sqlite") =>
              request.search = Absent
         /\ request.backend = "sqlite" => \A o \in Objects : o.db = Database(request)
<1>1. /\ request.backend \in DOMAIN World \cap {"mysql", "postgres", "sqlite"}
      /\ request.tool \in DOMAIN KindsOf /\ request.size \in Nat \ {0}
  BY RequestsAssumption, ServersAssumption DEF Schemas
<1>2. PICK t \in Router(request.backend, FALSE, request.pinned # Absent) :
        t.name = request.tool /\ (request.search # Absent => "search" \in t.params)
             /\ (request.database # Absent => "database" \in t.params)
  BY RequestsAssumption DEF Accepted
<1>3. /\ request.tool = "listMaterializedViews" => request.backend = "postgres"
      /\ request.tool \in {"listDatabases", "listFunctions", "listProcedures"} => request.backend # "sqlite"
      /\ request.tool = "listDatabases" \/ (request.tool = "listViews" /\ request.backend = "sqlite") =>
           request.search = Absent
  BY <1>1, <1>2, ListTools
<1>4. ASSUME request.backend = "sqlite", NEW o \in Objects PROVE o.db = Database(request)
  <2>1. request.pinned # Absent /\ o.db = request.pinned
    BY <1>4, RequestsAssumption DEF Accepted, Objects
  <2>2. request.database = Absent
    <3>1. \A s \in SqliteTools.tools \cup SqliteTools.gated : "database" \notin s.params
      BY DEF SqliteTools, SqliteListTables, SqliteListViews, SqliteListTriggers, SqliteReadQuery,
             SqliteExplainQuery, SqliteDropTable, SqliteWriteQuery, OfFile, Tool, Filtered
    <3>2. QED BY <1>2, <1>4, <3>1 DEF Router, FromSpecs
  <2>3. QED BY <2>1, <2>2 DEF Database, Default
<1>5. QED BY <1>1, <1>3, <1>4

-----------------------------------------------------------------------------
(* What is promised of the catalogue, and the order it is listed in.       *)
Listed == {o \in catalogue : Promised(o)}

(* What ORDER BY compares after the name.                                  *)
Tie(o) ==
  CASE request.backend = "postgres" /\ request.tool = "listTriggers" -> NameOfTable(Objects, o)
    [] request.backend = "postgres" /\ request.tool \in {"listFunctions", "listProcedures"} -> o.id
    [] OTHER -> 0
Earlier(o, p) == o.name < p.name \/ (o.name = p.name /\ Tie(o) < Tie(p))

(* What a part is on exists.                                               *)
Closed == \A o \in catalogue : o.on # 0 => \E t \in catalogue : t.id = o.on

(* Rows that stand for what is promised, one for each object, and are      *)
(* compared by what ORDER BY says.                                         *)
StandFor(rows) ==
  /\ \A row \in rows : row.of \in Listed /\ row.by = <<row.of.name, Tie(row.of)>>
  /\ \A o \in Listed : \E row \in rows : row.of = o
  /\ \A a, b \in rows : a.of = b.of => a = b

(* The objects of a server are told apart by their ids, are finitely many, *)
(* and are what the server can have.                                       *)
LEMMA ObjectFacts ==
  ASSUME request \in Requests
  PROVE  /\ \A o, p \in Objects : o.id = p.id => o = p
         /\ \A o \in Objects :
              /\ o.id \in 1..(I64Max - 1) /\ o.name \in Nat
              /\ o.kind \notin Foreign[request.backend] /\ o.flags \subseteq HiddenBy(request.backend, o.kind)
              /\ o.kind # "database" => o.schema \in Schemas[request.backend]
              /\ o.on # 0 <=> o.kind \in PartKinds
              /\ o.on # 0 => \E t \in Objects : t.id = o.on /\ t.kind \in Relations /\ t.db = o.db
                                                /\ t.schema = o.schema
              /\ o.kind \in {"check", "trigger"} => o.cols = {}
<1>1. request.backend \in DOMAIN World
  BY RequestFacts
<1>2. QED BY <1>1, WorldAssumption, ServersAssumption, PartsAssumption DEF Objects

(* A part's table is the one whose id it has.                              *)
LEMMA TableOf ==
  ASSUME request \in Requests, NEW cat, cat \subseteq Objects, NEW o, NEW t \in cat, t.id = o.on
  PROVE  NameOfTable(cat, o) = t.name
<1>1. \A u \in cat : u.id = o.on => u = t
  BY ObjectFacts
<1>2. QED BY <1>1 DEF NameOfTable

(* The catalogue's parts are on the tables they are on in the world.       *)
LEMMA SameTable ==
  ASSUME request \in Requests, catalogue \subseteq Objects, Closed, NEW o \in catalogue, o.on # 0
  PROVE  NameOfTable(catalogue, o) = NameOfTable(Objects, o) /\ NameOfTable(Objects, o) \in Nat
<1>1. PICK t \in catalogue : t.id = o.on
  BY DEF Closed
<1>2. t \in Objects /\ t.name \in Nat
  BY ObjectFacts
<1>3. NameOfTable(catalogue, o) = t.name
  BY <1>1, TableOf
<1>4. NameOfTable(Objects, o) = t.name
  BY <1>1, <1>2, TableOf
<1>5. QED BY <1>2, <1>3, <1>4

(* A query with one row for each object, which its sort key comes from.    *)
LEMMA RowEach ==
  ASSUME NEW f, \A o \in Listed : f[o].of = o /\ f[o].by = <<o.name, Tie(o)>>
  PROVE  StandFor({f[o] : o \in Listed})
BY DEF StandFor

(* The rows of a query that orders by the name alone.                      *)
LEMMA PlainRows ==
  ASSUME \A o \in Listed : Tie(o) = 0
  PROVE  StandFor(Plain(Listed))
<1> DEFINE f == [o \in Listed |-> Row(o, 0, <<o.name>>, {})]
<1>1. \A o \in Listed : f[o].of = o /\ f[o].by = <<o.name, Tie(o)>>
  BY DEF Row
<1>2. Plain(Listed) = {f[o] : o \in Listed}
  BY DEF Plain
<1> HIDE DEF f
<1>3. QED BY <1>1, <1>2, RowEach

(* What a MySQL tool selects, the one for databases apart.                 *)
LEMMA MysqlListed ==
  ASSUME request \in Requests, catalogue \subseteq Objects, request.backend = "mysql",
         NEW kinds, \A o \in catalogue : o.kind \in kinds <=> o.kind \in KindsOf[request.tool],
         "database" \notin kinds
  PROVE  Mysql(catalogue, request, kinds) = Listed
<1>1. ASSUME NEW o \in catalogue
      PROVE  (o.kind \in kinds /\ o.db = Database(request) /\ Like(o, request)) <=> Promised(o)
  <2>1. o.flags \subseteq {} /\ (o.kind # "database" => o.schema = "public")
    BY ObjectFacts DEF HiddenBy, Schemas
  <2>2. QED BY <2>1 DEF Promised
<1>2. QED BY <1>1 DEF Mysql, Listed

(* What a PostgreSQL tool selects, but for what the server hides.          *)
LEMMA PgListed ==
  ASSUME request \in Requests, catalogue \subseteq Objects, request.backend = "postgres",
         NEW kinds, \A o \in catalogue : o.kind \in kinds <=> o.kind \in KindsOf[request.tool],
         "database" \notin kinds
  PROVE  /\ {o \in Pg(catalogue, request, kinds) : "internal" \notin o.flags} = Listed
         /\ "trigger" \notin kinds => Pg(catalogue, request, kinds) = Listed
<1>1. ASSUME NEW o \in catalogue, o.kind \in kinds
      PROVE  /\ o.schema \in {"public", "private"}
             /\ "internal" \notin o.flags <=> o.flags \subseteq IF request.detailed THEN {} ELSE {"no sql"}
             /\ "trigger" \notin kinds => "internal" \notin o.flags
  <2>1. o.kind # "database" /\ o.kind # "column"
    <3>1. request.tool \in DOMAIN KindsOf /\ o.kind \in KindsOf[request.tool]
      BY <1>1, RequestFacts
    <3>2. QED BY <1>1, <3>1 DEF KindsOf, TableKinds
  <2>2. o.flags \subseteq HiddenBy("postgres", o.kind) /\ o.schema \in {"public", "private"}
    BY <2>1, ObjectFacts DEF Schemas
  <2>3. o.flags \subseteq {"internal"} /\ (o.kind # "trigger" => o.flags = {})
    BY <2>1, <2>2 DEF HiddenBy, TableKinds
  <2>4. QED BY <1>1, <2>2, <2>3
<1>2. ASSUME NEW o \in catalogue
      PROVE  (/\ o.kind \in kinds /\ o.db = Database(request) /\ o.schema = "public" /\ Like(o, request)
              /\ "internal" \notin o.flags) <=> Promised(o)
  BY <1>1 DEF Promised
<1>3. {o \in Pg(catalogue, request, kinds) : "internal" \notin o.flags} = Listed
  BY <1>2 DEF Pg, Listed
<1>4. QED BY <1>1, <1>3 DEF Pg

(* MySQL's tools.                                                          *)
LEMMA MysqlRows ==
  ASSUME request \in Requests, catalogue \subseteq Objects, request.backend = "mysql"
  PROVE  StandFor(MysqlSelected(catalogue, request))
<1> DEFINE tool == request.tool
<1>1. /\ tool \in DOMAIN KindsOf /\ tool # "listMaterializedViews"
      /\ tool = "listDatabases" => request.search = Absent
  BY RequestFacts
<1>2. \A o : Tie(o) = 0
  BY DEF Tie
<1>3. CASE tool = "listDatabases"
  <2>1. ASSUME NEW o \in catalogue PROVE o.kind = "database" <=> Promised(o)
    <3>1. o.flags \subseteq HiddenBy("mysql", o.kind)
      BY ObjectFacts
    <3>2. o.flags = {}
      BY <3>1 DEF HiddenBy
    <3>3. QED BY <1>1, <1>3, <3>2 DEF Promised, KindsOf, Like, Pattern, Absent, Blank
  <2>2. {o \in catalogue : o.kind = "database"} = Listed
    BY <2>1 DEF Listed
  <2>3. MysqlSelected(catalogue, request) = Plain(Listed)
    BY <1>3, <2>2 DEF MysqlSelected, MysqlDatabases
  <2>4. QED BY <1>2, <2>3, PlainRows
<1>4. CASE tool = "listTables"
  <2> DEFINE f == [t \in Listed |-> Row(t, 0, <<t.name>>, IF request.detailed THEN MysqlParts(catalogue, t) ELSE {})]
  <2>1. \A o \in catalogue : o.kind # "virtual"
    BY ObjectFacts DEF Foreign
  <2>2. Mysql(catalogue, request, {"table", "partitioned"}) = Listed
    BY <1>4, <2>1, MysqlListed DEF KindsOf, TableKinds
  <2>3. MysqlSelected(catalogue, request) = {f[o] : o \in Listed}
    BY <1>4, <2>2 DEF MysqlSelected, MysqlTables
  <2>4. \A o \in Listed : f[o].of = o /\ f[o].by = <<o.name, Tie(o)>>
    BY <1>2 DEF Row
  <2> HIDE DEF f
  <2>5. QED BY <2>3, <2>4, RowEach
<1>5. CASE tool \in {"listViews", "listTriggers", "listFunctions", "listProcedures"}
  <2>1. PICK kind \in {"view", "trigger", "function", "procedure"} :
          /\ KindsOf[tool] = {kind}
          /\ MysqlSelected(catalogue, request) = Plain(Mysql(catalogue, request, {kind}))
    BY <1>5 DEF KindsOf, MysqlSelected, MysqlViews, MysqlTriggers, MysqlFunctions, MysqlProcedures
  <2>2. Mysql(catalogue, request, {kind}) = Listed
    BY <2>1, MysqlListed
  <2>3. QED BY <1>2, <2>1, <2>2, PlainRows
<1>6. QED BY <1>1, <1>3, <1>4, <1>5 DEF KindsOf

(* PostgreSQL's tools.                                                     *)
LEMMA PgRows ==
  ASSUME request \in Requests, catalogue \subseteq Objects, Closed, request.backend = "postgres"
  PROVE  StandFor(PgSelected(catalogue, request))
<1> DEFINE tool == request.tool
<1>1. /\ tool \in DOMAIN KindsOf
      /\ tool = "listDatabases" => request.search = Absent
  BY RequestFacts
<1>2. \A o : tool \notin {"listTriggers", "listFunctions", "listProcedures"} => Tie(o) = 0
  BY DEF Tie
<1>3. CASE tool = "listDatabases"
  <2>1. ASSUME NEW o \in catalogue PROVE (o.kind = "database" /\ "template" \notin o.flags) <=> Promised(o)
    <3>1. o.flags \subseteq HiddenBy("postgres", o.kind)
      BY ObjectFacts
    <3>2. o.kind = "database" => o.flags \subseteq {"template"}
      BY <3>1 DEF HiddenBy
    <3>3. o.kind = "database" =>
            ("template" \notin o.flags <=> o.flags \subseteq IF request.detailed THEN {} ELSE {"no sql"})
      BY <3>2
    <3>4. KindsOf[tool] = {"database"} /\ Like(o, request)
      BY <1>1, <1>3 DEF KindsOf, Like, Pattern, Absent, Blank
    <3>5. QED BY <3>3, <3>4 DEF Promised
  <2>2. {o \in catalogue : o.kind = "database" /\ "template" \notin o.flags} = Listed
    BY <2>1 DEF Listed
  <2>3. PgSelected(catalogue, request) = Plain(Listed)
    BY <1>3, <2>2 DEF PgSelected, PgDatabases
  <2>4. QED BY <1>2, <1>3, <2>3, PlainRows
<1>4. CASE tool = "listTables"
  <2> DEFINE f == [t \in Listed |-> Row(t, 0, <<t.name>>, IF request.detailed THEN PgParts(catalogue, t) ELSE {})]
  <2>1. \A o \in catalogue : o.kind # "virtual"
    BY ObjectFacts DEF Foreign
  <2>2. Pg(catalogue, request, {"table", "partitioned"}) = Listed
    BY <1>4, <2>1, PgListed DEF KindsOf, TableKinds
  <2>3. PgSelected(catalogue, request) = {f[o] : o \in Listed}
    BY <1>4, <2>2 DEF PgSelected, PgTables
  <2>4. \A o \in Listed : f[o].of = o /\ f[o].by = <<o.name, Tie(o)>>
    BY <1>2, <1>4 DEF Row
  <2> HIDE DEF f
  <2>5. QED BY <2>3, <2>4, RowEach
<1>5. CASE tool \in {"listViews", "listMaterializedViews"}
  <2>1. PICK kind \in {"view", "matview"} :
          /\ KindsOf[tool] = {kind}
          /\ PgSelected(catalogue, request) = Plain(Pg(catalogue, request, {kind}))
    BY <1>5 DEF KindsOf, PgSelected, PgViews, PgMaterializedViews
  <2>2. Pg(catalogue, request, {kind}) = Listed
    BY <2>1, PgListed
  <2>3. QED BY <1>2, <1>5, <2>1, <2>2, PlainRows
<1>6. CASE tool = "listTriggers"
  <2> DEFINE f == [o \in Listed |-> Row(o, NameOfTable(catalogue, o), <<o.name>>, {})]
  <2>1. {o \in Pg(catalogue, request, {"trigger"}) : "internal" \notin o.flags} = Listed
    BY <1>6, PgListed DEF KindsOf
  <2>2. PgSelected(catalogue, request) = {f[o] : o \in Listed}
    BY <1>6, <2>1 DEF PgSelected, PgTriggers
  <2>3. ASSUME NEW o \in Listed PROVE f[o].of = o /\ f[o].by = <<o.name, Tie(o)>>
    <3>1. KindsOf[tool] = {"trigger"}
      BY <1>6 DEF KindsOf
    <3>2. o \in catalogue /\ o.kind = "trigger"
      BY <3>1 DEF Listed, Promised
    <3>3. o.on # 0
      BY <3>2, ObjectFacts DEF PartKinds
    <3>4. NameOfTable(catalogue, o) = Tie(o)
      BY <1>6, <3>2, <3>3, SameTable DEF Tie
    <3>5. QED BY <3>4 DEF Row
  <2> HIDE DEF f
  <2>4. QED BY <2>2, <2>3, RowEach
<1>7. CASE tool \in {"listFunctions", "listProcedures"}
  <2>1. PICK kind \in {"function", "procedure"} :
          KindsOf[tool] = {kind} /\ PgSelected(catalogue, request) = PgRoutines(catalogue, request, kind)
    BY <1>7 DEF KindsOf, PgSelected, PgFunctions, PgProcedures
  <2> DEFINE f == [o \in Listed |-> Row(o, o.id, IF request.detailed THEN <<o.name, o.id>> ELSE <<o.name>>, {})]
  <2>2. Pg(catalogue, request, {kind}) = Listed
    BY <2>1, PgListed
  <2>3. PgSelected(catalogue, request) = {f[o] : o \in Listed}
    BY <2>1, <2>2 DEF PgRoutines
  <2>4. \A o \in Listed : f[o].of = o /\ f[o].by = <<o.name, Tie(o)>>
    BY <1>7 DEF Row, Tie
  <2> HIDE DEF f
  <2>5. QED BY <2>3, <2>4, RowEach
<1>8. QED BY <1>1, <1>3, <1>4, <1>5, <1>6, <1>7 DEF KindsOf

(* SQLite's tools.                                                         *)
LEMMA SqliteRows ==
  ASSUME request \in Requests, catalogue \subseteq Objects, request.backend = "sqlite"
  PROVE  StandFor(SqliteSelected(catalogue, request))
<1> DEFINE tool == request.tool
           Hides(o) == o.flags \subseteq IF request.detailed THEN {} ELSE {"no sql"}
<1>1. /\ tool \in {"listTables", "listViews", "listTriggers"}
      /\ tool = "listViews" => request.search = Absent
  BY RequestFacts DEF KindsOf
<1>2. \A o : Tie(o) = 0
  BY DEF Tie
<1>3. ASSUME NEW o \in catalogue
      PROVE  /\ o.db = Database(request) /\ o.kind # "partitioned"
             /\ o.kind # "database" => o.schema = "main"
             /\ o.kind = "view" => o.flags = {}
             /\ o.kind \in TableKinds => ("reserved" \notin o.flags <=> Hides(o))
             /\ o.kind = "trigger" =>
                  /\ "reserved" \notin o.flags
                  /\ (request.detailed => "no sql" \notin o.flags) <=> Hides(o)
  <2>1. o \in Objects /\ o.flags \subseteq HiddenBy("sqlite", o.kind) /\ o.kind \notin Foreign["sqlite"]
        /\ (o.kind # "database" => o.schema \in Schemas["sqlite"])
    BY ObjectFacts
  <2>2. /\ o.kind = "view" => o.flags = {}
        /\ o.kind \in TableKinds => o.flags \subseteq {"reserved"}
        /\ o.kind = "trigger" => o.flags \subseteq {"no sql"}
    BY <2>1 DEF HiddenBy, TableKinds
  <2>3. o.db = Database(request)
    BY <2>1, RequestFacts
  <2>4. o.kind \in TableKinds => ("reserved" \notin o.flags <=> Hides(o))
    BY <2>2
  <2>5. o.kind = "trigger" => "reserved" \notin o.flags /\ ((request.detailed => "no sql" \notin o.flags) <=> Hides(o))
    BY <2>2
  <2>6. QED BY <2>1, <2>2, <2>3, <2>4, <2>5 DEF Foreign, Schemas
<1>4. CASE tool = "listTables"
  <2> DEFINE f == [t \in Listed |-> Row(t, 0, <<t.name>>, IF request.detailed THEN SqliteParts(catalogue, t) ELSE {})]
  <2>1. \A o \in catalogue :
          (o \in Sqlite(catalogue, {"table", "virtual"}) /\ Like(o, request)) <=> Promised(o)
    <3>1. KindsOf[tool] = TableKinds
      BY <1>4 DEF KindsOf
    <3>2. \A o \in catalogue : Promised(o) <=> o.kind \in {"table", "virtual"} /\ "reserved" \notin o.flags /\ Like(o, request)
      BY <1>3, <3>1 DEF Promised, TableKinds
    <3>3. QED BY <1>3, <3>2 DEF Sqlite
  <2>2. {o \in Sqlite(catalogue, {"table", "virtual"}) : Like(o, request)} = Listed
    BY <2>1 DEF Sqlite, Listed
  <2>3. SqliteSelected(catalogue, request) = {f[o] : o \in Listed}
    BY <1>4, <2>2 DEF SqliteSelected, SqliteTables
  <2>4. \A o \in Listed : f[o].of = o /\ f[o].by = <<o.name, Tie(o)>>
    BY <1>2 DEF Row
  <2> HIDE DEF f
  <2>5. QED BY <2>3, <2>4, RowEach
<1>5. CASE tool = "listViews"
  <2>1. \A o \in catalogue : o \in Sqlite(catalogue, {"view"}) <=> Promised(o)
    <3>1. KindsOf[tool] = {"view"} /\ \A o : Like(o, request)
      BY <1>1, <1>5 DEF KindsOf, Like, Pattern, Absent, Blank
    <3>2. \A o \in catalogue : Promised(o) <=> o.kind = "view"
      BY <1>3, <3>1 DEF Promised
    <3>3. \A o \in catalogue : o.kind = "view" => "reserved" \notin o.flags
      BY <1>3
    <3>4. QED BY <1>3, <3>2, <3>3 DEF Sqlite
  <2>2. Sqlite(catalogue, {"view"}) = Listed
    BY <2>1 DEF Sqlite, Listed
  <2>3. SqliteSelected(catalogue, request) = Plain(Listed)
    BY <1>5, <2>2 DEF SqliteSelected, SqliteViews
  <2>4. QED BY <1>2, <2>3, PlainRows
<1>6. CASE tool = "listTriggers"
  <2>1. \A o \in catalogue :
          (o \in Sqlite(catalogue, {"trigger"}) /\ Like(o, request) /\ (request.detailed => "no sql" \notin o.flags))
            <=> Promised(o)
    <3>1. KindsOf[tool] = {"trigger"}
      BY <1>6 DEF KindsOf
    <3>2. \A o \in catalogue : Promised(o) <=> o.kind = "trigger" /\ (request.detailed => "no sql" \notin o.flags) /\ Like(o, request)
      BY <1>3, <3>1 DEF Promised
    <3>3. QED BY <1>3, <3>2 DEF Sqlite
  <2>2. {o \in Sqlite(catalogue, {"trigger"}) : Like(o, request) /\ (request.detailed => "no sql" \notin o.flags)} = Listed
    BY <2>1 DEF Sqlite, Listed
  <2>3. SqliteSelected(catalogue, request) = Plain(Listed)
    BY <1>6, <2>2 DEF SqliteSelected, SqliteTriggers
  <2>4. QED BY <1>2, <2>3, PlainRows
<1>7. QED BY <1>1, <1>4, <1>5, <1>6

(* Whatever the tool, its query selects what it promises.                  *)
LEMMA SelectedRows ==
  ASSUME request \in Requests, catalogue \subseteq Objects, Closed
  PROVE  StandFor(Selected(catalogue, request))
BY RequestFacts, MysqlRows, PgRows, SqliteRows DEF Selected

-----------------------------------------------------------------------------
(* The order of the listing. *)
Order == {w \in Objects \X Objects : Earlier(w[1], w[2])}
Place(o) == Rank(Listed, Order, o)

(* There are fewer objects than a cursor can count.                        *)
LEMMA FewObjects ==
  ASSUME request \in Requests
  PROVE  IsFiniteSet(Objects) /\ Cardinality(Objects) \in Nat /\ Cardinality(Objects) < I64Max
<1> DEFINE id == [o \in Objects |-> o.id]
<1>1. id \in Injection(Objects, 1..(I64Max - 1))
  BY ObjectFacts DEF Injection, IsInjective
<1>2. IsFiniteSet(1..(I64Max - 1)) /\ Cardinality(1..(I64Max - 1)) = I64Max - 1
  BY WidthAssumption, FS_Interval
<1>3. IsFiniteSet(Objects) /\ Cardinality(Objects) <= I64Max - 1
  BY <1>1, <1>2, FS_Injection
<1>4. QED BY <1>3, FS_CardinalityType, WidthAssumption

(* The catalogue and what is promised of it are finite, too.               *)
LEMMA FewListed ==
  ASSUME request \in Requests, catalogue \subseteq Objects
  PROVE  IsFiniteSet(Listed) /\ Cardinality(Listed) \in Nat /\ Cardinality(Listed) < I64Max
<1>1. Listed \in SUBSET Objects
  BY DEF Listed
<1>2. IsFiniteSet(Listed) /\ Cardinality(Listed) <= Cardinality(Objects)
  BY <1>1, FewObjects, FS_Subset
<1>3. QED BY <1>2, FewObjects, FS_CardinalityType, WidthAssumption

(* What is listed is of one database and one schema, and its names are of  *)
(* one alphabet.                                                           *)
LEMMA ListedFacts ==
  ASSUME request \in Requests, catalogue \subseteq Objects, NEW o \in Listed
  PROVE  /\ o \in Objects /\ o \in catalogue /\ Promised(o)
         /\ o.name \in Nat /\ Tie(o) \in Nat
         /\ o.kind # "database" =>
              o.db = Database(request) /\ o.schema \in Schemas[request.backend] \ {"private"}
<1>1. o \in Objects /\ o \in catalogue /\ Promised(o)
  BY DEF Listed
<1>2. o.name \in Nat /\ o.id \in Nat
  BY <1>1, ObjectFacts, WidthAssumption
<1>3. ASSUME request.backend = "postgres", request.tool = "listTriggers" PROVE Tie(o) \in Nat
  <2>1. KindsOf[request.tool] = {"trigger"}
    BY <1>3 DEF KindsOf
  <2>2. o.kind = "trigger"
    BY <1>1, <2>1 DEF Promised
  <2>3. PICK t \in Objects : t.id = o.on
    BY <1>1, <2>2, ObjectFacts DEF PartKinds
  <2>4. NameOfTable(Objects, o) = t.name
    BY <2>3, TableOf
  <2>5. t.name \in Nat
    BY ObjectFacts
  <2>6. QED BY <1>3, <2>4, <2>5 DEF Tie
<1>4. ~(request.backend = "postgres" /\ request.tool = "listTriggers") => Tie(o) \in Nat
  BY <1>2 DEF Tie
<1>5. o.kind # "database" => o.db = Database(request) /\ o.schema \in Schemas[request.backend] \ {"private"}
  BY <1>1, ObjectFacts DEF Promised
<1>6. Tie(o) \in Nat
  BY <1>3, <1>4
<1>7. QED BY <1>1, <1>2, <1>5, <1>6

(* ORDER BY tells everything apart that a tool lists.                      *)
LEMMA NoTies ==
  ASSUME request \in Requests, catalogue \subseteq Objects, NEW o \in Listed, NEW p \in Listed,
         o.name = p.name, Tie(o) = Tie(p)
  PROVE  o = p
<1> DEFINE b == request.backend
<1> SUFFICES ASSUME o # p PROVE FALSE
  OBVIOUS
<1>1. b \in DOMAIN World /\ World[b] = Objects /\ request.tool \in DOMAIN KindsOf
      /\ b \in {"mysql", "postgres", "sqlite"}
  BY RequestFacts DEF Objects
<1>2. o \in Objects /\ p \in Objects /\ o.kind \in KindsOf[request.tool] /\ p.kind \in KindsOf[request.tool]
  BY ListedFacts DEF Promised
<1>3. o.kind = p.kind \/ {o.kind, p.kind} \subseteq Relations
  BY <1>1, <1>2 DEF KindsOf, Relations, TableKinds
<1>4. o.kind # "database" => o.db = p.db /\ o.schema = p.schema
  <2>1. o.kind # "database" => p.kind # "database"
    BY <1>3 DEF Relations, TableKinds
  <2>2. o.kind # "database" => o.db = p.db
    BY <2>1, ListedFacts
  <2>3. o.kind # "database" => /\ o.schema \in Schemas[b] \ {"private"}
                               /\ p.schema \in Schemas[b] \ {"private"}
    BY <2>1, ListedFacts
  <2>4. QED BY <1>1, <2>2, <2>3 DEF Schemas
<1>5. \/ o.kind \in PartKinds \ {"trigger"}
      \/ b = "postgres" /\ (o.kind \in {"function", "procedure"} \/ (o.kind = "trigger" /\ o.on # p.on))
  BY <1>1, <1>2, <1>3, <1>4, NamesAssumption
<1>6. o.kind \notin PartKinds \ {"trigger"}
  BY <1>1, <1>2 DEF KindsOf, PartKinds, Keys, TableKinds
<1>7. CASE b = "postgres" /\ o.kind \in {"function", "procedure"}
  <2>1. request.tool \in {"listFunctions", "listProcedures"}
    BY <1>1, <1>2, <1>7 DEF KindsOf, TableKinds
  <2>2. Tie(o) = o.id /\ Tie(p) = p.id
    BY <1>7, <2>1 DEF Tie
  <2>3. o.id = p.id
    BY <2>2
  <2>4. QED BY <1>2, <2>3, ObjectFacts
<1>8. CASE b = "postgres" /\ o.kind = "trigger" /\ o.on # p.on
  <2>1. request.tool = "listTriggers" /\ KindsOf[request.tool] = {"trigger"}
    BY <1>1, <1>2, <1>8 DEF KindsOf, TableKinds
  <2>2. p.kind = "trigger"
    BY <1>2, <2>1
  <2>3. PICK t \in Objects : t.id = o.on /\ t.kind \in Relations /\ t.db = o.db /\ t.schema = o.schema
    BY <1>2, <1>8, ObjectFacts DEF PartKinds
  <2>4. PICK u \in Objects : u.id = p.on /\ u.kind \in Relations /\ u.db = p.db /\ u.schema = p.schema
    BY <1>2, <2>2, ObjectFacts DEF PartKinds
  <2>5. Tie(o) = t.name /\ Tie(p) = u.name
    BY <1>8, <2>1, <2>3, <2>4, TableOf DEF Tie
  <2>6. t.name = u.name /\ t # u /\ t.db = u.db /\ t.schema = u.schema
    BY <1>4, <1>8, <2>3, <2>4, <2>5
  <2>7. t.kind \notin PartKinds /\ t.kind \notin {"function", "procedure", "trigger"}
    BY <2>3 DEF Relations, PartKinds, Keys, TableKinds
  <2>8. QED BY <1>1, <2>3, <2>4, <2>6, <2>7, NamesAssumption
<1>9. QED BY <1>5, <1>6, <1>7, <1>8

(* The order is one.                                                       *)
LEMMA OrderStrict ==
  ASSUME request \in Requests, catalogue \subseteq Objects
  PROVE  StrictOrder(Listed, Order)
<1>1. \A o \in Listed : o \in Objects /\ o.name \in Nat /\ Tie(o) \in Nat
  BY ListedFacts
<1>2. \A o, p \in Listed : <<o, p>> \in Order <=> Earlier(o, p)
  BY <1>1 DEF Order
<1>3. \A o \in Listed : ~ Earlier(o, o)
  BY <1>1 DEF Earlier
<1>4. \A o, p \in Listed : o = p \/ Earlier(o, p) \/ Earlier(p, o)
  BY <1>1, NoTies DEF Earlier
<1>5. \A o, p, q \in Listed : Earlier(o, p) /\ Earlier(p, q) => Earlier(o, q)
  BY <1>1 DEF Earlier
<1>6. QED BY <1>2, <1>3, <1>4, <1>5 DEF StrictOrder

(* So everything listed has a place of its own.                            *)
LEMMA ListedPlaces ==
  ASSUME request \in Requests, catalogue \subseteq Objects
  PROVE  /\ \A o \in Listed : Place(o) \in 0..(Cardinality(Listed) - 1)
         /\ \A o, p \in Listed : Earlier(o, p) => Place(o) < Place(p)
         /\ \A o, p \in Listed : Place(o) = Place(p) => o = p
         /\ \A o, p \in Listed : Place(o) < Place(p) => Earlier(o, p) /\ o.name <= p.name
         /\ \A k \in 0..(Cardinality(Listed) - 1) : \E o \in Listed : Place(o) = k
         /\ \A m \in 0..Cardinality(Listed) : Cardinality({o \in Listed : Place(o) < m}) = m
<1>1. IsFiniteSet(Listed) /\ StrictOrder(Listed, Order)
  BY FewListed, OrderStrict
<1>2. \A o \in Listed : o \in Objects /\ o.name \in Nat /\ Tie(o) \in Nat
  BY ListedFacts
<1>3. \A o, p \in Listed : <<o, p>> \in Order <=> Earlier(o, p)
  BY <1>2 DEF Order
<1>4. /\ \A o \in Listed : Place(o) \in 0..(Cardinality(Listed) - 1)
      /\ \A o, p \in Listed : Earlier(o, p) => Place(o) < Place(p)
      /\ \A o, p \in Listed : Place(o) = Place(p) => o = p
      /\ \A k \in 0..(Cardinality(Listed) - 1) : \E o \in Listed : Place(o) = k
  <2>1. Placed(Listed, Order)
    BY <1>1, Places
  <2>2. QED BY <1>3, <2>1 DEF Place, Placed
<1>5. ASSUME NEW o \in Listed, NEW p \in Listed, Place(o) < Place(p) PROVE Earlier(o, p) /\ o.name <= p.name
  <2>1. Place(o) \in Nat /\ Place(p) \in Nat
    BY <1>4, FewListed
  <2>2. ~ Earlier(p, o) /\ o # p
    BY <1>4, <1>5, <2>1
  <2>3. Earlier(o, p)
    BY <1>1, <1>3, <2>2 DEF StrictOrder
  <2>4. QED BY <1>2, <2>3 DEF Earlier
<1>6. \A m \in 0..Cardinality(Listed) : Cardinality({o \in Listed : Place(o) < m}) = m
  BY <1>1, FirstPlaces DEF Place
<1>7. QED BY <1>4, <1>5, <1>6

(* As many rows as objects they stand for.                                 *)
LEMMA RowsCounted ==
  ASSUME request \in Requests, catalogue \subseteq Objects, NEW rows, StandFor(rows), NEW T, T \subseteq Listed
  PROVE  IsFiniteSet({row \in rows : row.of \in T}) /\ Cardinality({row \in rows : row.of \in T}) = Cardinality(T)
<1> DEFINE U == {row \in rows : row.of \in T}
           f == [o \in T |-> CHOOSE row \in rows : row.of = o]
<1>1. \A o \in T : f[o] \in rows /\ f[o].of = o
  BY DEF StandFor
<1>2. f \in [T -> U]
  BY <1>1
<1>3. \A o, p \in T : f[o] = f[p] => o = p
  BY <1>1
<1>4. \A row \in U : \E o \in T : f[o] = row
  BY <1>1 DEF StandFor
<1>5. f \in Bijection(T, U)
  BY <1>2, <1>3, <1>4 DEF Bijection, Injection, IsInjective, Surjection
<1>6. IsFiniteSet(T)
  BY FewListed, FS_Subset
<1>7. QED BY <1>5, <1>6, FS_Bijection DEF ExistsBijection

-----------------------------------------------------------------------------
(* A page. *)

(* Sorted either way the rows come in the order of the listing.            *)
LEMMA OrderedRows ==
  ASSUME request \in Requests, catalogue \subseteq Objects, NEW rows, StandFor(rows), NEW up \in BOOLEAN
  PROVE  /\ Ordered(rows, up) \in Seq(rows) /\ Len(Ordered(rows, up)) = Cardinality(Listed)
         /\ \A k \in 1..Cardinality(Listed) :
              /\ Ordered(rows, up)[k] \in rows /\ Ordered(rows, up)[k].of \in Listed
              /\ Place(Ordered(rows, up)[k].of) = k - 1
<1> DEFINE n == Cardinality(Listed)
           before(a) == {b \in rows : Before(up, b, a)}
<1>1. n \in Nat
  BY FewListed
<1>2. Cardinality(rows) = n
  <2>1. {row \in rows : row.of \in Listed} = rows
    BY DEF StandFor
  <2>2. QED BY <2>1, RowsCounted
<1>3. ASSUME NEW a \in rows, NEW b \in rows PROVE Before(up, b, a) <=> Earlier(b.of, a.of)
  <2>1. a.of \in Listed /\ b.of \in Listed /\ a.by = <<a.of.name, Tie(a.of)>> /\ b.by = <<b.of.name, Tie(b.of)>>
    BY DEF StandFor
  <2>2. a.of.name \in Nat /\ b.of.name \in Nat /\ Tie(a.of) \in Nat /\ Tie(b.of) \in Nat
    BY <2>1, ListedFacts
  <2>3. ASSUME a.by = b.by PROVE ~ Before(up, b, a)
    <3>1. a.of = b.of
      BY <2>1, <2>3, NoTies
    <3>2. a.of.id \in Nat
      BY <2>1, ListedFacts, ObjectFacts, WidthAssumption
    <3>3. a.by[1] \in Nat /\ a.by[2] \in Nat
      BY <2>1, <2>2
    <3>4. QED BY <2>3, <3>1, <3>2, <3>3 DEF Before
  <2>4. a.by # b.by => (Before(up, b, a) <=> b.by[1] < a.by[1] \/ (b.by[1] = a.by[1] /\ b.by[2] < a.by[2]))
    BY DEF Before
  <2>5. Earlier(b.of, a.of) => a.by # b.by
    BY <2>1, <2>2 DEF Earlier
  <2>6. (b.by[1] < a.by[1] \/ (b.by[1] = a.by[1] /\ b.by[2] < a.by[2])) <=> Earlier(b.of, a.of)
    BY <2>1 DEF Earlier
  <2>7. QED BY <2>3, <2>4, <2>5, <2>6
<1>4. ASSUME NEW a \in rows PROVE a.of \in Listed /\ Cardinality(before(a)) = Place(a.of)
  <2>1. a.of \in Listed
    BY DEF StandFor
  <2>2. \A row \in rows : row.of \in Listed
    BY DEF StandFor
  <2>3. \A o \in Listed : o \in Objects
    BY ListedFacts
  <2>4. before(a) = {row \in rows : row.of \in Below(Listed, Order, a.of)}
    BY <1>3, <2>1, <2>2, <2>3 DEF Below, Order
  <2>5. Below(Listed, Order, a.of) \subseteq Listed
    BY DEF Below
  <2>6. QED BY <2>1, <2>4, <2>5, RowsCounted DEF Place, Rank
<1>5. ASSUME NEW k \in 1..n
      PROVE  /\ Ordered(rows, up)[k] \in rows /\ Ordered(rows, up)[k].of \in Listed
             /\ Place(Ordered(rows, up)[k].of) = k - 1
  <2>1. Ordered(rows, up)[k] = CHOOSE a \in rows : Cardinality(before(a)) = k - 1
    BY <1>2 DEF Ordered
  <2>2. PICK o \in Listed : Place(o) = k - 1
    BY <1>1, ListedPlaces
  <2>3. PICK a \in rows : a.of = o
    BY DEF StandFor
  <2>4. \E c \in rows : Cardinality(before(c)) = k - 1
    BY <1>4, <2>2, <2>3
  <2> HIDE DEF before
  <2>5. Ordered(rows, up)[k] \in rows /\ Cardinality(before(Ordered(rows, up)[k])) = k - 1
    BY <2>1, <2>4
  <2>6. QED BY <1>4, <2>5
<1>6. Ordered(rows, up) \in [1..n -> rows]
  <2> DEFINE f == [k \in 1..n |-> CHOOSE a \in rows : Cardinality(before(a)) = k - 1]
  <2>1. Ordered(rows, up) = f
    BY <1>2 DEF Ordered
  <2>2. DOMAIN f = 1..n /\ f = [k \in 1..n |-> f[k]]
    OBVIOUS
  <2> HIDE DEF f
  <2>3. QED BY <1>5, <2>1, <2>2
<1>7. QED BY <1>1, <1>5, <1>6

PageLength(offset) ==
  LET n == Cardinality(Listed)
  IN IF n <= offset THEN 0 ELSE IF n - offset < request.size THEN n - offset ELSE request.size
PageAt(offset, rows, page) ==
  /\ page \in Seq(Selected(catalogue, request))
  /\ Len(page) = PageLength(offset)
  /\ \A i \in 1..Len(page) : /\ page[i] \in Selected(catalogue, request) /\ page[i].of \in Listed
                             /\ Place(page[i].of) = offset + i - 1
  /\ Len(rows) > request.size <=> Cardinality(Listed) > offset + request.size

(* A page has what comes next after the offset, and the lookahead row says *)
(* whether anything comes after it.                                        *)
LEMMA Pages ==
  ASSUME request \in Requests, catalogue \subseteq Objects, Closed, NEW up \in BOOLEAN, NEW offset \in Nat,
         NEW rows, rows = Window(Ordered(Selected(catalogue, request), up), Limit(request.size), offset),
         NEW page, page = PageRows(request.size, rows)
  PROVE  PageAt(offset, rows, page)
<1> DEFINE n == Cardinality(Listed)
           size == request.size
           Sel == Selected(catalogue, request)
           all == Ordered(Sel, up)
           m == IF offset + size + 1 < n THEN offset + size + 1 ELSE n
<1>1. n \in Nat /\ size \in Nat \ {0}
  BY FewListed, RequestFacts
<1>2. /\ all \in Seq(Sel) /\ Len(all) = n
      /\ \A k \in 1..n : all[k] \in Sel /\ all[k].of \in Listed /\ Place(all[k].of) = k - 1
  BY SelectedRows, OrderedRows
<1>3. rows = SubSeq(all, offset + 1, m)
  <2>1. Len(all) = n
    BY <1>2
  <2> HIDE DEF n, all, size
  <2>2. rows = SubSeq(all, offset + 1, IF offset + (size + 1) < n THEN offset + (size + 1) ELSE n)
    BY <2>1 DEF Window, Limit, n, all, size
  <2>3. offset + (size + 1) = offset + size + 1
    BY <1>1
  <2>4. QED BY <2>2, <2>3
<1> HIDE DEF n, size, Sel, all
<1>4. /\ Len(rows) = IF offset < m THEN m - offset ELSE 0
      /\ rows \in Seq(Sel)
      /\ \A i \in 1..Len(rows) : rows[i] = all[offset + i] /\ offset + i \in 1..n
  <2>1. m \in Nat /\ m <= n
    BY <1>1
  <2> HIDE DEF m
  <2>2. CASE offset < m
    <3>1. \A i \in (offset + 1)..m : all[i] \in Sel
      BY <1>1, <1>2, <2>1
    <3>2. /\ rows \in Seq(Sel) /\ Len(rows) = IF offset + 1 <= m THEN m - (offset + 1) + 1 ELSE 0
          /\ \A i \in 1..(m - (offset + 1) + 1) : rows[i] = all[offset + 1 + i - 1]
      BY <1>3, <2>1, <3>1, SubSeqProperties
    <3>3. m - (offset + 1) + 1 = m - offset /\ offset + 1 <= m
      BY <2>1, <2>2
    <3>4. \A i \in 1..(m - offset) : offset + 1 + i - 1 = offset + i /\ offset + i \in 1..n
      BY <1>1, <2>1
    <3>5. QED BY <2>2, <3>2, <3>3, <3>4
  <2>3. CASE ~(offset < m)
    <3>1. rows = << >>
      BY <1>3, <2>1, <2>3, SubSeqEmpty
    <3>2. QED BY <2>3, <3>1
  <2>4. QED BY <2>2, <2>3
<1>5. Len(rows) > size <=> n > offset + size
  BY <1>1, <1>4
<1>6. /\ page \in Seq(Sel)
      /\ Len(page) = IF Len(rows) > size THEN size ELSE Len(rows)
      /\ \A i \in 1..Len(page) : i \in 1..Len(rows) /\ page[i] = rows[i]
  <2>1. Len(rows) \in Nat
    BY <1>4
  <2>2. CASE Len(rows) > size
    <3>1. page = SubSeq(rows, 1, size)
      BY <2>2 DEF PageRows, size
    <3>2. \A i \in 1..size : i \in 1..Len(rows) /\ rows[i] \in Sel
      BY <1>1, <1>4, <2>1, <2>2
    <3>3. /\ page \in Seq(Sel) /\ Len(page) = IF 1 <= size THEN size - 1 + 1 ELSE 0
          /\ \A i \in 1..(size - 1 + 1) : page[i] = rows[1 + i - 1]
      BY <1>1, <3>1, <3>2, SubSeqProperties
    <3>4. size - 1 + 1 = size /\ \A i \in 1..size : 1 + i - 1 = i
      BY <1>1
    <3>5. Len(page) = size
      BY <1>1, <3>3, <3>4
    <3>6. QED BY <2>2, <3>2, <3>3, <3>4, <3>5
  <2>3. CASE ~(Len(rows) > size)
    <3>1. page = rows
      BY <2>3 DEF PageRows, size
    <3>2. QED BY <1>4, <2>1, <2>3, <3>1
  <2>4. QED BY <2>2, <2>3
<1>7. Len(page) = IF n <= offset THEN 0 ELSE IF n - offset < size THEN n - offset ELSE size
  BY <1>1, <1>4, <1>6
<1>8. ASSUME NEW i \in 1..Len(page) PROVE page[i] \in Sel /\ page[i].of \in Listed /\ Place(page[i].of) = offset + i - 1
  <2>1. page[i] = all[offset + i] /\ offset + i \in 1..n
    BY <1>4, <1>6
  <2>2. QED BY <1>2, <2>1
<1>9. QED BY <1>5, <1>6, <1>7, <1>8 DEF n, size, Sel, PageAt, PageLength

-----------------------------------------------------------------------------
(* What ListEntries does, with the offset of the client's cursor. *)
At == IF cursor = None THEN 0 ELSE cursor

(* The offset is the cursor, unless that exceeds an i64: then it is as much*)
(* as an i64 holds, which is more than there is.                           *)
LEMMA Begins ==
  ASSUME TypeOK
  PROVE  At \in 0..U64Max /\ Offset(cursor) \in Nat /\ Offset(cursor) <= At /\ (At < I64Max => Offset(cursor) = At)
         /\ (Offset(cursor) < I64Max => Offset(cursor) = At)
BY WidthAssumption DEF TypeOK, At, Offset, None

(* What a call does: it appends a page of the listing, goes on behind it   *)
(* as long as there is more, and shows with each table its parts.          *)
LEMMA Calls ==
  ASSUME TypeOK, Closed, ListEntries
  PROVE  \E page, of :
           /\ page \in Seq(Selected(catalogue, request)) /\ Len(page) = PageLength(Offset(cursor))
           /\ of \in Seq(Objects) /\ Len(of) = PageLength(Offset(cursor))
           /\ \A i \in 1..Len(of) : /\ page[i] \in Selected(catalogue, request) /\ of[i] = page[i].of
                                    /\ of[i] \in Listed /\ Place(of[i]) = Offset(cursor) + i - 1
           /\ fetched' = fetched \o of
           /\ shown' = IF request.detailed THEN shown \o Keyed(page) ELSE shown
           /\ IF Cardinality(Listed) > Offset(cursor) + request.size
              THEN pc' = "paging" /\ cursor' = At + request.size
              ELSE pc' = "end" /\ cursor' = None
<1> DEFINE n == Cardinality(Listed)
           off == Offset(cursor)
           size == request.size
           Sel == Selected(catalogue, request)
<1>1. request \in Requests /\ catalogue \subseteq Objects
  BY DEF TypeOK
<1>2. n \in Nat /\ n < I64Max /\ off \in Nat /\ At \in 0..U64Max /\ size \in Nat \ {0}
      /\ (off < I64Max => off = At)
  BY <1>1, FewListed, Begins, RequestFacts
<1>3. PICK up \in BOOLEAN :
        \E rows, page :
          /\ rows = Window(Ordered(Sel, up), Limit(size), off)
          /\ page = PageRows(size, rows)
          /\ fetched' = fetched \o [i \in DOMAIN page |-> page[i].of]
          /\ shown' = IF request.detailed THEN shown \o Keyed(page) ELSE shown
          /\ cursor' = NextCursor(cursor, size, rows)
          /\ pc' = IF NextCursor(cursor, size, rows) = None THEN "end" ELSE "paging"
  BY DEF ListEntries
<1> PICK rows, page :
      /\ rows = Window(Ordered(Sel, up), Limit(size), off)
      /\ page = PageRows(size, rows)
      /\ fetched' = fetched \o [i \in DOMAIN page |-> page[i].of]
      /\ shown' = IF request.detailed THEN shown \o Keyed(page) ELSE shown
      /\ cursor' = NextCursor(cursor, size, rows)
      /\ pc' = IF NextCursor(cursor, size, rows) = None THEN "end" ELSE "paging"
  BY <1>3
<1> DEFINE next == NextCursor(cursor, size, rows)
           len == IF n <= off THEN 0 ELSE IF n - off < size THEN n - off ELSE size
           of == [i \in DOMAIN page |-> page[i].of]
<1>4. /\ page \in Seq(Sel) /\ Len(page) = len
      /\ \A i \in 1..Len(page) : page[i] \in Sel /\ page[i].of \in Listed /\ Place(page[i].of) = off + i - 1
      /\ Len(rows) > size <=> n > off + size
  <2>1. off \in Nat /\ up \in BOOLEAN /\ request \in Requests /\ catalogue \subseteq Objects /\ Closed
    BY <1>1, <1>2
  <2>2. rows = Window(Ordered(Selected(catalogue, request), up), Limit(request.size), off)
    OBVIOUS
  <2>3. page = PageRows(request.size, rows)
    OBVIOUS
  <2> HIDE DEF off
  <2>4. PageAt(off, rows, page)
    BY <2>1, <2>2, <2>3, Pages
  <2>5. QED BY <2>4 DEF PageAt, PageLength
<1>5. of \in Seq(Objects) /\ Len(of) = len /\ \A i \in 1..len : of[i] = page[i].of
  <2>1. DOMAIN page = 1..len /\ len \in Nat
    BY <1>2, <1>4
  <2>2. \A o \in Listed : o \in Objects
    BY <1>1, ListedFacts
  <2> HIDE DEF len
  <2>3. of \in [1..len -> Objects] /\ \A i \in 1..len : of[i] = page[i].of
    BY <1>4, <2>1, <2>2
  <2> HIDE DEF of
  <2>4. QED BY <2>1, <2>3
<1>6. /\ n > off + size => next = At + size
      /\ ~(n > off + size) => next = None
  <2>1. n > off + size => off = At /\ ~(At + size > U64Max)
    BY <1>2, WidthAssumption
  <2>2. QED BY <1>4, <2>1 DEF NextCursor, SaturatingAdd, At
<1>7. n > off + size => next # None
  BY <1>2, <1>6 DEF None
<1>8. /\ n > off + size => pc' = "paging" /\ cursor' = At + size
      /\ ~(n > off + size) => pc' = "end" /\ cursor' = None
  <2>1. cursor' = next /\ (pc' = IF next = None THEN "end" ELSE "paging")
    OBVIOUS
  <2> HIDE DEF next, n, off
  <2>2. QED BY <1>6, <1>7, <2>1
<1>9. \A i \in 1..Len(of) : page[i] \in Sel /\ of[i] = page[i].of /\ of[i] \in Listed /\ Place(of[i]) = off + i - 1
  BY <1>4, <1>5
<1>10. len = PageLength(off)
  BY DEF PageLength
<1>11. fetched' = fetched \o of /\ (shown' = IF request.detailed THEN shown \o Keyed(page) ELSE shown)
  OBVIOUS
<1> HIDE DEF of, len, off, n
<1>12. /\ page \in Seq(Selected(catalogue, request)) /\ Len(page) = PageLength(off)
       /\ of \in Seq(Objects) /\ Len(of) = PageLength(off)
       /\ \A i \in 1..Len(of) : /\ page[i] \in Selected(catalogue, request) /\ of[i] = page[i].of
                                /\ of[i] \in Listed /\ Place(of[i]) = off + i - 1
       /\ IF n > off + size THEN pc' = "paging" /\ cursor' = At + size ELSE pc' = "end" /\ cursor' = None
  BY <1>4, <1>5, <1>8, <1>9, <1>10
<1>13. QED BY <1>11, <1>12 DEF n, off

-----------------------------------------------------------------------------
(* What others change. *)

(* An object comes with what is declared in it; its table is there.        *)
LEMMA CreateEffect ==
  ASSUME TypeOK, Closed, NEW o \in Roots, Create(o)
  PROVE  catalogue \subseteq catalogue' /\ catalogue' \subseteq Objects /\ Closed'
<1> PICK cat : cat = catalogue'
  OBVIOUS
<1>1. request \in Requests /\ catalogue \subseteq Objects /\ o \in Objects
  BY DEF TypeOK, Roots
<1>2. cat = catalogue \cup {o} \cup {p \in Objects : p.on = o.id /\ p.kind # "trigger"}
  BY DEF Create
<1>3. o.on = 0 \/ \E t \in catalogue : t.id = o.on
  BY DEF Create
<1>4. ASSUME NEW p \in cat, p.on # 0 PROVE \E t \in cat : t.id = p.on
  <2>1. CASE p \in catalogue
    BY <1>2, <1>4, <2>1 DEF Closed
  <2>2. CASE p = o
    BY <1>2, <1>3, <1>4, <2>2
  <2>3. CASE p.on = o.id
    BY <1>2, <2>3
  <2>4. QED BY <1>2, <2>1, <2>2, <2>3
<1>5. \A p \in cat : p.on # 0 => \E t \in cat : t.id = p.on
  BY <1>4
<1>6. catalogue \subseteq cat /\ cat \subseteq Objects
  BY <1>1, <1>2
<1>7. Closed'
  BY <1>5 DEF Closed
<1>8. QED BY <1>6, <1>7

(* An object goes with what is on it; nothing is on a part.                *)
LEMMA DropEffect ==
  ASSUME TypeOK, Closed, NEW o \in Roots, Drop(o)
  PROVE  catalogue' \subseteq catalogue /\ Closed'
<1> PICK cat : cat = catalogue'
  OBVIOUS
<1>1. request \in Requests /\ catalogue \subseteq Objects /\ o \in Objects
  BY DEF TypeOK, Roots
<1>2. cat = {p \in catalogue : o.id \notin {p.id, p.on}}
  BY DEF Drop
<1>3. ASSUME NEW p \in cat, p.on # 0 PROVE \E t \in cat : t.id = p.on
  <2>1. p \in catalogue /\ p \in Objects /\ p.on # o.id
    BY <1>1, <1>2
  <2>2. PICK t \in catalogue : t.id = p.on
    BY <1>3, <2>1 DEF Closed
  <2>3. PICK u \in Objects : u.id = p.on /\ u.kind \in Relations
    BY <1>1, <1>3, <2>1, ObjectFacts
  <2>4. t = u
    BY <1>1, <2>2, <2>3, ObjectFacts
  <2>5. t.kind \notin PartKinds
    BY <2>3, <2>4 DEF Relations, PartKinds, TableKinds, Keys
  <2>6. t.on = 0 /\ o.id # 0
    <3>1. t \in Objects /\ o.id \in 1..(I64Max - 1) /\ (t.on # 0 <=> t.kind \in PartKinds)
      BY <1>1, ObjectFacts
    <3>2. o.id # 0
      BY <3>1
    <3>3. QED BY <2>5, <3>1, <3>2
  <2>7. t \in cat
    BY <1>2, <2>1, <2>2, <2>6
  <2>8. QED BY <2>2, <2>7
<1>4. \A p \in cat : p.on # 0 => \E t \in cat : t.id = p.on
  BY <1>3
<1>5. cat \subseteq catalogue
  BY <1>2
<1>6. QED BY <1>4, <1>5 DEF Closed

-----------------------------------------------------------------------------
(* Where the client is: as far behind its start as it has objects; and no  *)
(* cursor that a page gave it counts further than an i64.                  *)
Follows ==
  pc = "paging" => At = first + Len(fetched) /\ (fetched # << >> => At < I64Max)
Untouched ==
  pc = "idle" => fetched = << >> /\ shown = << >> /\ added = {} /\ removed = {}
PagingInv == TypeOK /\ Closed /\ Follows /\ Untouched

(* Before the client begins nothing is fetched, and whatever else is gone  *)
(* no object is without what it is on.                                     *)
LEMMA PagingInit ==
  ASSUME Init PROVE PagingInv
<1>1. request \in Requests /\ catalogue \subseteq Objects /\ added = {} /\ removed = {}
      /\ cursor = None /\ pc = "idle" /\ first = 0 /\ fetched = << >> /\ shown = << >> /\ changes = 0
  BY DEF Init
<1>2. TypeOK
  <2>1. fetched \in Seq(Objects)
    BY <1>1
  <2>2. QED BY <1>1, <2>1, WidthAssumption DEF TypeOK
<1>3. Closed
  <2>1. PICK gone \in SUBSET Roots : catalogue = {o \in Objects \ gone : \A t \in gone : o.on # t.id}
    BY DEF Init
  <2>2. gone \subseteq Objects
    BY DEF Roots
  <2>3. ASSUME NEW p \in catalogue, p.on # 0 PROVE \E t \in catalogue : t.id = p.on
    <3>1. p \in Objects /\ \A t \in gone : p.on # t.id
      BY <2>1
    <3>2. PICK t \in Objects : t.id = p.on /\ t.kind \in Relations
      BY <1>1, <2>3, <3>1, ObjectFacts
    <3>3. t \notin gone
      BY <3>1, <3>2
    <3>4. t.kind \notin PartKinds
      BY <3>2 DEF Relations, PartKinds, TableKinds, Keys
    <3>5. t.on = 0
      BY <1>1, <3>4, ObjectFacts
    <3>6. \A u \in gone : u.id # 0
      <4>1. \A u \in Objects : u.id \in 1..(I64Max - 1)
        BY <1>1, ObjectFacts
      <4>2. \A u \in Objects : u.id # 0
        BY <4>1
      <4>3. QED BY <2>2, <4>2
    <3>7. t \in catalogue
      BY <2>1, <3>2, <3>3, <3>5, <3>6
    <3>8. QED BY <3>2, <3>7
  <2>4. QED BY <2>3 DEF Closed
<1>4. QED BY <1>1, <1>2, <1>3 DEF PagingInv, Follows, Untouched

(* Every step keeps the client where its cursor says it is.                *)
LEMMA PagingStep ==
  ASSUME PagingInv, [Next]_vars PROVE PagingInv'
<1>1. TypeOK /\ Closed /\ Follows /\ Untouched /\ request \in Requests /\ catalogue \subseteq Objects
  BY DEF PagingInv, TypeOK
<1>2. ASSUME NEW c \in {None} \cup Starts, Begin(c) PROVE PagingInv'
  <2>1. c = None \/ c \in 0..U64Max
    BY WidthAssumption
  <2>2. /\ pc' = "paging" /\ cursor' = c /\ (first' = IF c = None THEN 0 ELSE c)
        /\ catalogue' = catalogue /\ request' = request /\ fetched' = fetched /\ added' = added /\ removed' = removed
        /\ changes' = changes /\ pc = "idle"
    BY <1>2 DEF Begin
  <2>3. Objects' = Objects
    BY <2>2 DEF Objects
  <2>4. first' \in 0..U64Max
    BY <2>1, <2>2, WidthAssumption
  <2>5. TypeOK'
    BY <1>1, <2>1, <2>2, <2>3, <2>4 DEF TypeOK
  <2>6. Closed'
    BY <1>1, <2>2 DEF Closed
  <2>7. At' = first' /\ fetched' = << >>
    BY <1>1, <2>2 DEF At, Untouched
  <2>8. Follows' /\ Untouched'
    BY <2>2, <2>4, <2>7 DEF Follows, Untouched
  <2>9. QED BY <2>5, <2>6, <2>8 DEF PagingInv
<1>3. CASE ListEntries
  <2> DEFINE n == Cardinality(Listed)
             off == Offset(cursor)
             size == request.size
  <2>1. PICK page, of :
          /\ of \in Seq(Objects) /\ Len(of) = PageLength(off)
          /\ fetched' = fetched \o of
          /\ IF n > off + size THEN pc' = "paging" /\ cursor' = At + size ELSE pc' = "end" /\ cursor' = None
    BY <1>1, <1>3, Calls
  <2>2. n \in Nat /\ n < I64Max /\ off \in Nat /\ At \in 0..U64Max /\ size \in Nat \ {0} /\ (off < I64Max => off = At)
    BY <1>1, FewListed, Begins, RequestFacts
  <2>3. /\ pc = "paging" /\ catalogue' = catalogue /\ request' = request /\ first' = first
        /\ added' = added /\ removed' = removed /\ changes' = changes
    BY <1>3 DEF ListEntries
  <2>4. Objects' = Objects
    BY <2>3 DEF Objects
  <2>5. fetched \in Seq(Objects) /\ fetched' \in Seq(Objects) /\ Len(fetched') = Len(fetched) + Len(of)
    <3>1. fetched \in Seq(Objects)
      BY <1>1 DEF TypeOK
    <3>2. of \in Seq(Objects) /\ fetched' = fetched \o of
      BY <2>1
    <3>3. QED BY ONLY <3>1, <3>2, ConcatProperties
  <2>6. CASE n > off + size
    <3>1. off = At /\ At + size \in 0..U64Max /\ At + size < I64Max /\ PageLength(off) = size
      BY <2>2, <2>6, WidthAssumption DEF PageLength
    <3>2. pc' = "paging" /\ cursor' = At + size
      BY <2>1, <2>6
    <3>3. TypeOK'
      BY <1>1, <2>3, <2>4, <2>5, <3>1, <3>2 DEF TypeOK
    <3>4. At' = At + size
      BY <3>1, <3>2 DEF At, None
    <3>5. At = first + Len(fetched)
      BY <1>1, <2>3 DEF Follows
    <3>6. first \in Nat /\ Len(fetched) \in Nat
      BY <1>1, <2>5 DEF TypeOK
    <3>7. first + Len(fetched') = At + size
      BY <2>1, <2>2, <2>5, <3>1, <3>5, <3>6
    <3>8. Follows' /\ Untouched'
      BY <2>3, <3>1, <3>2, <3>4, <3>7 DEF Follows, Untouched
    <3>9. QED BY <1>1, <2>3, <3>3, <3>8 DEF PagingInv, Closed
  <2>7. CASE ~(n > off + size)
    <3>1. pc' = "end" /\ cursor' = None
      BY <2>1, <2>7
    <3>2. TypeOK'
      BY <1>1, <2>3, <2>4, <2>5, <3>1 DEF TypeOK
    <3>3. Follows' /\ Untouched'
      BY <3>1 DEF Follows, Untouched
    <3>4. QED BY <1>1, <2>3, <3>2, <3>3 DEF PagingInv, Closed
  <2>8. QED BY <2>6, <2>7
<1>4. ASSUME NEW o \in Roots, Create(o) PROVE PagingInv'
  <2>1. catalogue \subseteq catalogue' /\ catalogue' \subseteq Objects /\ Closed'
    BY <1>1, <1>4, CreateEffect
  <2>2. /\ request' = request /\ cursor' = cursor /\ pc' = pc /\ first' = first /\ fetched' = fetched
        /\ added' = added \cup (catalogue' \ catalogue) /\ removed' = removed
        /\ pc = "paging" /\ changes < MaxChanges /\ changes' = changes + 1
    BY <1>4 DEF Create
  <2>3. Objects' = Objects /\ changes' \in 0..MaxChanges
    BY <1>1, <2>2, WidthAssumption DEF Objects, TypeOK
  <2>4. added' \subseteq Objects
    BY <1>1, <2>1, <2>2 DEF TypeOK
  <2>5. TypeOK'
    BY <1>1, <2>1, <2>2, <2>3, <2>4 DEF TypeOK
  <2>6. Follows' /\ Untouched'
    BY <1>1, <2>2 DEF Follows, Untouched, At
  <2>7. QED BY <2>1, <2>5, <2>6 DEF PagingInv
<1>5. ASSUME NEW o \in Roots, Drop(o) PROVE PagingInv'
  <2>1. catalogue' \subseteq catalogue /\ Closed'
    BY <1>1, <1>5, DropEffect
  <2>2. /\ request' = request /\ cursor' = cursor /\ pc' = pc /\ first' = first /\ fetched' = fetched
        /\ removed' = removed \cup (catalogue \ catalogue') /\ added' = added
        /\ pc = "paging" /\ changes < MaxChanges /\ changes' = changes + 1
    BY <1>5 DEF Drop
  <2>3. Objects' = Objects /\ changes' \in 0..MaxChanges
    BY <1>1, <2>2, WidthAssumption DEF Objects, TypeOK
  <2>4. removed' \subseteq Objects /\ catalogue' \subseteq Objects
    BY <1>1, <2>1, <2>2 DEF TypeOK
  <2>5. TypeOK'
    BY <1>1, <2>2, <2>3, <2>4 DEF TypeOK
  <2>6. Follows' /\ Untouched'
    BY <1>1, <2>2 DEF Follows, Untouched, At
  <2>7. QED BY <2>1, <2>5, <2>6 DEF PagingInv
<1>6. CASE UNCHANGED vars
  <2>1. Objects' = Objects
    BY <1>6 DEF vars, Objects
  <2>2. TypeOK'
    BY <1>1, <1>6, <2>1 DEF TypeOK, vars
  <2>3. Closed' /\ Follows' /\ Untouched'
    BY <1>1, <1>6 DEF Closed, Follows, Untouched, At, vars
  <2>4. QED BY <2>2, <2>3 DEF PagingInv
<1>7. QED BY <1>2, <1>3, <1>4, <1>5, <1>6 DEF Next

(* Every variable of every behaviour keeps its type: in particular no      *)
(* cursor ever exceeds a u64, however far the client started.              *)
THEOREM TypeCorrect == Spec => []TypeOK
<1>1. Spec => []PagingInv
  <2>1. PagingInv /\ [Next]_vars => PagingInv'
    BY PagingStep
  <2>2. QED BY PagingInit, <2>1, PTL DEF Spec
<1>2. PagingInv => TypeOK
  BY DEF PagingInv
<1>3. QED BY <1>1, <1>2, PTL

-----------------------------------------------------------------------------
(* What changes between two calls. *)

(* A request is of one order and of one promise.                           *)
LEMMA SamePromise ==
  ASSUME request' = request
  PROVE  /\ Objects' = Objects /\ Order' = Order
         /\ \A o : Promised(o)' <=> Promised(o)
         /\ Listed' = {o \in catalogue' : Promised(o)}
<1>1. Objects' = Objects
  BY DEF Objects
<1>2. ASSUME NEW o PROVE Promised(o)' <=> Promised(o)
  BY DEF Promised, Database, Default, Like, Pattern
<1>3. Order' = Order
  BY <1>1 DEF Order, Earlier, Tie, NameOfTable
<1>4. Listed' = {o \in catalogue' : Promised(o)}
  BY <1>2 DEF Listed
<1>5. QED BY <1>1, <1>2, <1>3, <1>4

(* More elements move an element up; others that do not come before it do  *)
(* not.                                                                    *)
LEMMA RankGrows ==
  ASSUME NEW S, NEW T, S \subseteq T, IsFiniteSet(T), NEW R, NEW o
  PROVE  /\ Rank(S, R, o) \in Nat /\ Rank(T, R, o) \in Nat
         /\ Rank(S, R, o) <= Rank(T, R, o)
         /\ (\A d \in T \ S : <<d, o>> \notin R) => Rank(S, R, o) = Rank(T, R, o)
<1>1. Below(S, R, o) \in SUBSET Below(T, R, o) /\ Below(T, R, o) \in SUBSET T
  BY DEF Below
<1>2. IsFiniteSet(Below(T, R, o)) /\ IsFiniteSet(Below(S, R, o))
  BY <1>1, FS_Subset
<1>3. Rank(S, R, o) \in Nat /\ Rank(T, R, o) \in Nat
  BY <1>2, FS_CardinalityType DEF Rank
<1>4. Rank(S, R, o) <= Rank(T, R, o)
  BY <1>1, <1>2, FS_Subset DEF Rank
<1>5. (\A d \in T \ S : <<d, o>> \notin R) => Below(S, R, o) = Below(T, R, o)
  BY DEF Below
<1>6. QED BY <1>3, <1>4, <1>5 DEF Rank

(* In the order of the listing: what is created moves nothing down, and    *)
(* nothing at all that it does not come before.                            *)
LEMMA PlaceAfterCreate ==
  ASSUME request \in Requests, request' = request, catalogue \subseteq catalogue', catalogue' \subseteq Objects,
         NEW o \in Listed
  PROVE  /\ o \in Listed' /\ Place(o) \in Nat /\ Place(o)' \in Nat /\ Place(o) <= Place(o)'
         /\ (\A d \in catalogue' \ catalogue : Promised(d) => ~(d.name <= o.name)) => Place(o)' = Place(o)
<1> PICK T : T = Listed'
  OBVIOUS
<1>1. Order' = Order /\ T = {p \in catalogue' : Promised(p)}
  BY SamePromise
<1>2. Listed \subseteq T /\ T \in SUBSET Objects
  BY <1>1 DEF Listed
<1>3. IsFiniteSet(T)
  BY <1>2, FewObjects, FS_Subset
<1>4. Place(o)' = Rank(T, Order, o)
  BY <1>1 DEF Place, Rank, Below
<1>5. /\ Place(o) \in Nat /\ Rank(T, Order, o) \in Nat /\ Place(o) <= Rank(T, Order, o)
      /\ (\A d \in T \ Listed : <<d, o>> \notin Order) => Place(o) = Rank(T, Order, o)
  BY <1>2, <1>3, RankGrows DEF Place
<1>6. ASSUME \A d \in catalogue' \ catalogue : Promised(d) => ~(d.name <= o.name), NEW d \in T \ Listed
      PROVE  <<d, o>> \notin Order
  <2>1. d \in catalogue' \ catalogue /\ Promised(d) /\ d \in Objects /\ o \in Objects
    BY <1>1, <1>2, <1>6 DEF Listed
  <2>2. ~(d.name <= o.name) /\ d.name \in Nat /\ o.name \in Nat
    BY <1>6, <2>1, ObjectFacts
  <2>3. ~ Earlier(d, o)
    BY <2>2 DEF Earlier
  <2>4. QED BY <2>3 DEF Order
<1>7. QED BY <1>2, <1>4, <1>5, <1>6

(* What is dropped moves nothing up, and nothing at all that it did not    *)
(* come before.                                                            *)
LEMMA PlaceAfterDrop ==
  ASSUME request \in Requests, request' = request, catalogue' \subseteq catalogue, catalogue \subseteq Objects,
         NEW o, o \in Listed'
  PROVE  /\ o \in Listed /\ Place(o) \in Nat /\ Place(o)' \in Nat /\ Place(o)' <= Place(o)
         /\ (\A d \in (catalogue \ catalogue') \ {o} : Promised(d) => ~(d.name <= o.name)) => Place(o)' = Place(o)
<1> PICK S : S = Listed'
  OBVIOUS
<1>1. Order' = Order /\ S = {p \in catalogue' : Promised(p)}
  BY SamePromise
<1>2. S \subseteq Listed /\ Listed \in SUBSET Objects /\ o \in S
  BY <1>1 DEF Listed
<1>3. IsFiniteSet(Listed)
  BY <1>2, FewObjects, FS_Subset
<1>4. Place(o)' = Rank(S, Order, o)
  BY <1>1 DEF Place, Rank, Below
<1>5. /\ Place(o) \in Nat /\ Rank(S, Order, o) \in Nat /\ Rank(S, Order, o) <= Place(o)
      /\ (\A d \in Listed \ S : <<d, o>> \notin Order) => Rank(S, Order, o) = Place(o)
  BY <1>2, <1>3, RankGrows DEF Place
<1>6. ASSUME \A d \in (catalogue \ catalogue') \ {o} : Promised(d) => ~(d.name <= o.name), NEW d \in Listed \ S
      PROVE  <<d, o>> \notin Order
  <2>1. d \in (catalogue \ catalogue') \ {o} /\ Promised(d) /\ d \in Objects /\ o \in Objects
    BY <1>1, <1>2, <1>6 DEF Listed
  <2>2. ~(d.name <= o.name) /\ d.name \in Nat /\ o.name \in Nat
    BY <1>6, <2>1, ObjectFacts
  <2>3. ~ Earlier(d, o)
    BY <2>2 DEF Earlier
  <2>4. QED BY <2>3 DEF Order
<1>7. QED BY <1>2, <1>4, <1>5, <1>6

-----------------------------------------------------------------------------
(* ChangesShiftOnly. A client that started at the first page has so far    *)
(* fetched as many objects as its offset says. Whatever it did not fetch   *)
(* is still ahead of it unless something before it was dropped, and what   *)
(* it did fetch is behind it unless something before it was created.       *)
Fetched(o) == \E i \in DOMAIN fetched : fetched[i] = o
Once(o) == \A i, j \in DOMAIN fetched : fetched[i] = o /\ fetched[j] = o => i = j
DroppedBefore(o) == \E d \in removed \ {o} : Promised(d) /\ d.name <= o.name
CreatedBefore(o) == \E d \in added : Promised(d) /\ d.name <= o.name
Ahead(o) == ~Fetched(o) => pc = "paging" /\ Len(fetched) <= Place(o)
Behind(o) == Once(o) /\ (Fetched(o) /\ pc = "paging" => Place(o) < Len(fetched))
ShiftInv ==
  pc # "idle" /\ first = 0 =>
    \A o \in Listed \ added : (~DroppedBefore(o) => Ahead(o)) /\ (~CreatedBefore(o) => Behind(o))

(* A page moves the client behind what it fetches.                         *)
LEMMA ShiftCall ==
  ASSUME PagingInv, ShiftInv, ListEntries PROVE ShiftInv'
<1> DEFINE n == Cardinality(Listed)
           off == Offset(cursor)
           size == request.size
<1>1. TypeOK /\ Closed /\ Follows /\ request \in Requests /\ catalogue \subseteq Objects
  BY DEF PagingInv, TypeOK
<1>2. /\ pc = "paging" /\ catalogue' = catalogue /\ request' = request /\ first' = first
      /\ added' = added /\ removed' = removed
  BY DEF ListEntries
<1> SUFFICES ASSUME first = 0, NEW o, o \in Listed' \ added'
             PROVE  (~DroppedBefore(o)' => Ahead(o)') /\ (~CreatedBefore(o)' => Behind(o)')
  BY <1>2 DEF ShiftInv
<1>3. PICK page, of :
        /\ of \in Seq(Objects) /\ Len(of) = PageLength(off)
        /\ \A i \in 1..Len(of) : of[i] \in Listed /\ Place(of[i]) = off + i - 1
        /\ fetched' = fetched \o of
        /\ IF n > off + size THEN pc' = "paging" ELSE pc' = "end"
  BY <1>1, Calls
<1>4. n \in Nat /\ n < I64Max /\ off \in Nat /\ size \in Nat \ {0} /\ I64Max \in Nat \ {0} /\ (At < I64Max => off = At)
  BY <1>1, FewListed, Begins, RequestFacts, WidthAssumption
<1>5. fetched \in Seq(Objects)
  BY <1>1 DEF TypeOK
<1>6. off = Len(fetched) /\ Len(fetched) \in Nat
  <2>1. Len(fetched) \in Nat /\ At = 0 + Len(fetched) /\ (fetched # << >> => At < I64Max)
    BY <1>1, <1>2, <1>5 DEF Follows
  <2>2. fetched = << >> => At < I64Max
    BY <1>4, <2>1
  <2>3. QED BY <1>4, <2>1, <2>2
<1>7. Len(of) \in Nat /\ (~(n > off + size) => n <= off + Len(of)) /\ (n > off + size => Len(of) = size)
  BY <1>3, <1>4 DEF PageLength
<1>8. o \in Listed /\ o \notin added /\ Place(o)' = Place(o)
      /\ (DroppedBefore(o)' <=> DroppedBefore(o)) /\ (CreatedBefore(o)' <=> CreatedBefore(o))
  <2>1. Listed' = Listed /\ Order' = Order /\ \A d : Promised(d)' <=> Promised(d)
    BY <1>2, SamePromise DEF Listed
  <2>2. Place(o)' = Place(o)
    BY <2>1 DEF Place, Rank, Below
  <2>3. QED BY <1>2, <2>1, <2>2 DEF DroppedBefore, CreatedBefore
<1>9. Place(o) \in 0..(n - 1) /\ \A p \in Listed : Place(o) = Place(p) => o = p
  BY <1>1, <1>8, ListedPlaces
<1>10. /\ Len(fetched') = off + Len(of) /\ DOMAIN fetched' = 1..(off + Len(of)) /\ DOMAIN fetched = 1..off
       /\ \A i \in 1..off : fetched'[i] = fetched[i]
       /\ \A i \in 1..Len(of) : off + i \in 1..(off + Len(of)) /\ fetched'[off + i] = of[i]
       /\ \A i \in (off + 1)..(off + Len(of)) : i - off \in 1..Len(of) /\ fetched'[i] = of[i - off]
  <2> PICK f : f = fetched'
    OBVIOUS
  <2>1. f = fetched \o of
    BY <1>3
  <2>2. /\ Len(f) = Len(fetched) + Len(of) /\ f \in Seq(Objects)
        /\ \A i \in 1..(Len(fetched) + Len(of)) : f[i] = IF i <= Len(fetched) THEN fetched[i] ELSE of[i - Len(fetched)]
    <3>1. of \in Seq(Objects)
      BY <1>3
    <3>2. QED BY ONLY <1>5, <2>1, <3>1, ConcatProperties
  <2>3. Len(f) = off + Len(of) /\ DOMAIN f = 1..(off + Len(of)) /\ DOMAIN fetched = 1..off
    BY <1>5, <1>6, <2>2
  <2> HIDE DEF off
  <2>4. \A i \in 1..(off + Len(of)) : f[i] = IF i <= off THEN fetched[i] ELSE of[i - off]
    BY <1>6, <2>2
  <2>5. off \in Nat /\ Len(of) \in Nat
    BY <1>4, <1>7
  <2>6. \A i \in 1..off : f[i] = fetched[i]
    BY <2>4, <2>5
  <2>7. \A i \in 1..Len(of) : off + i \in 1..(off + Len(of)) /\ ~(off + i <= off) /\ (off + i) - off = i
    BY <2>5
  <2>8. \A i \in 1..Len(of) : off + i \in 1..(off + Len(of)) /\ f[off + i] = of[i]
    BY <2>4, <2>7
  <2>9. \A i \in (off + 1)..(off + Len(of)) : i - off \in 1..Len(of) /\ i \in 1..(off + Len(of)) /\ ~(i <= off)
    BY <2>5
  <2>10. \A i \in (off + 1)..(off + Len(of)) : i - off \in 1..Len(of) /\ f[i] = of[i - off]
    BY <2>4, <2>9
  <2>11. QED BY <2>3, <2>6, <2>8, <2>10
<1>11. Fetched(o)' <=> \E i \in 1..(off + Len(of)) : fetched'[i] = o
  BY <1>10 DEF Fetched
<1>12. Fetched(o) => Fetched(o)'
  <2>1. ASSUME NEW i \in 1..off, fetched[i] = o PROVE Fetched(o)'
    <3>1. i \in 1..(off + Len(of)) /\ fetched'[i] = o
      BY <1>4, <1>7, <1>10, <2>1
    <3>2. QED BY <1>11, <3>1
  <2>2. QED BY <1>10, <2>1 DEF Fetched
<1>13. off <= Place(o) /\ Place(o) < off + Len(of) => Fetched(o)'
  <2>1. ASSUME off <= Place(o), Place(o) < off + Len(of) PROVE Fetched(o)'
    <3> DEFINE i == Place(o) - off + 1
    <3>1. i \in 1..Len(of) /\ off + i - 1 = Place(o)
      BY <1>4, <1>7, <1>9, <2>1
    <3> HIDE DEF i
    <3>2. of[i] = o
      BY <1>3, <1>9, <3>1
    <3>3. QED BY <1>10, <1>11, <3>1, <3>2
  <2>2. QED BY <2>1
<1>14. ASSUME ~DroppedBefore(o), ~Fetched(o)' PROVE pc' = "paging" /\ Len(fetched') <= Place(o)'
  <2>1. ~Fetched(o) /\ ~DroppedBefore(o)
    BY <1>12, <1>14
  <2>2. off <= Place(o)
    BY <1>2, <1>6, <1>8, <2>1 DEF ShiftInv, Ahead
  <2>3. off + Len(of) <= Place(o)
    BY <1>4, <1>7, <1>9, <1>13, <1>14, <2>2
  <2>4. n > off + size
    BY <1>4, <1>7, <1>9, <2>3
  <2>5. QED BY <1>3, <1>8, <1>10, <2>3, <2>4
<1>15. ASSUME ~CreatedBefore(o) PROVE Behind(o)'
  <2>1. Once(o) /\ (Fetched(o) => Place(o) < off)
    BY <1>2, <1>6, <1>8, <1>15 DEF ShiftInv, Behind
  <2>2. ASSUME NEW i \in DOMAIN fetched', fetched'[i] = o
        PROVE  /\ i \in 1..off => fetched[i] = o /\ Fetched(o)
               /\ i \notin 1..off => Place(o) = i - 1 /\ ~Fetched(o)
               /\ Place(o) < off + Len(of)
    <3>1. i \in 1..(off + Len(of))
      BY <1>10, <2>2
    <3>2. CASE i \in 1..off
      <4>1. fetched[i] = o /\ Fetched(o)
        BY <1>10, <2>2, <3>2 DEF Fetched
      <4>2. QED BY <1>4, <1>7, <1>9, <2>1, <3>2, <4>1
    <3>3. CASE i \notin 1..off
      <4>1. i \in (off + 1)..(off + Len(of))
        BY <1>4, <1>7, <3>1, <3>3
      <4>2. i - off \in 1..Len(of) /\ of[i - off] = o
        BY <1>10, <2>2, <4>1
      <4>3. Place(o) = off + (i - off) - 1
        BY <1>3, <4>2
      <4>4. Place(o) = i - 1 /\ i - 1 >= off /\ i - 1 < off + Len(of)
        BY <1>4, <1>7, <4>1, <4>3
      <4>5. ~Fetched(o)
        BY <1>4, <1>9, <2>1, <4>4
      <4>6. QED BY <3>3, <4>4, <4>5
    <3>4. QED BY <3>2, <3>3
  <2>3. ASSUME NEW i \in DOMAIN fetched', NEW j \in DOMAIN fetched', fetched'[i] = o, fetched'[j] = o PROVE i = j
    <3>1. i \in 1..(off + Len(of)) /\ j \in 1..(off + Len(of))
      BY <1>10, <2>3
    <3>2. CASE i \in 1..off
      <4>1. j \in 1..off /\ fetched[i] = o /\ fetched[j] = o
        BY <2>2, <2>3, <3>2
      <4>2. QED BY <1>10, <2>1, <3>2, <4>1 DEF Once
    <3>3. CASE i \notin 1..off
      <4>1. j \notin 1..off
        BY <2>2, <2>3, <3>3
      <4>2. Place(o) = i - 1 /\ Place(o) = j - 1
        BY <2>2, <2>3, <3>3, <4>1
      <4>3. QED BY <3>1, <4>2, <1>4, <1>7
    <3>4. QED BY <3>2, <3>3
  <2>4. Fetched(o)' => Place(o)' < Len(fetched')
    BY <1>8, <1>10, <2>2 DEF Fetched
  <2>5. Once(o)'
    BY <2>3 DEF Once
  <2>6. QED BY <2>4, <2>5 DEF Behind
<1>16. QED BY <1>8, <1>14, <1>15 DEF Ahead

(* Every step keeps what is not fetched ahead of the client and what is    *)
(* fetched behind it, but for what others do before it.                    *)
LEMMA ShiftStep ==
  ASSUME PagingInv, ShiftInv, [Next]_vars PROVE ShiftInv'
<1>1. TypeOK /\ Closed /\ Untouched /\ request \in Requests /\ catalogue \subseteq Objects /\ fetched \in Seq(Objects)
  BY DEF PagingInv, TypeOK
<1>2. ASSUME NEW c \in {None} \cup Starts, Begin(c) PROVE ShiftInv'
  <2>1. /\ pc' = "paging" /\ fetched' = << >> /\ catalogue' = catalogue /\ request' = request
    BY <1>1, <1>2 DEF Begin, Untouched
  <2>2. ASSUME NEW o, o \in Listed' PROVE Ahead(o)' /\ Behind(o)'
    <3>1. Listed' = Listed /\ Order' = Order
      BY <2>1, SamePromise DEF Listed
    <3>2. Place(o)' = Place(o) /\ o \in Listed
      BY <2>2, <3>1 DEF Place, Rank, Below
    <3>3. Place(o) \in Nat
      BY <1>1, <3>2, ListedPlaces, FewListed
    <3>4. Len(fetched') = 0 /\ DOMAIN fetched' = {}
      BY <2>1
    <3>5. Ahead(o)'
      BY <2>1, <3>2, <3>3, <3>4 DEF Ahead
    <3>6. Behind(o)'
      BY <3>4 DEF Behind, Once, Fetched
    <3>7. QED BY <3>5, <3>6
  <2>3. QED BY <2>2 DEF ShiftInv
<1>3. CASE ListEntries
  BY <1>3, ShiftCall
<1>4. ASSUME NEW x \in Roots, Create(x) PROVE ShiftInv'
  <2>1. catalogue \subseteq catalogue' /\ catalogue' \subseteq Objects
    BY <1>1, <1>4, CreateEffect
  <2>2. /\ request' = request /\ pc' = pc /\ first' = first /\ fetched' = fetched /\ pc = "paging"
        /\ added' = added \cup (catalogue' \ catalogue) /\ removed' = removed
    BY <1>4 DEF Create
  <2> SUFFICES ASSUME first = 0, NEW o, o \in Listed' \ added'
               PROVE  (~DroppedBefore(o)' => Ahead(o)') /\ (~CreatedBefore(o)' => Behind(o)')
    BY <2>2 DEF ShiftInv
  <2>3. \A d : Promised(d)' <=> Promised(d)
    BY <2>2, SamePromise
  <2>4. o \in Listed /\ o \notin added
    BY <2>2, <2>3 DEF Listed
  <2>5. /\ Place(o) \in Nat /\ Place(o)' \in Nat /\ Place(o) <= Place(o)'
        /\ (\A d \in catalogue' \ catalogue : Promised(d) => ~(d.name <= o.name)) => Place(o)' = Place(o)
    BY <1>1, <2>1, <2>2, <2>4, PlaceAfterCreate
  <2>6. (~DroppedBefore(o) => Ahead(o)) /\ (~CreatedBefore(o) => Behind(o))
    BY <2>2, <2>4 DEF ShiftInv
  <2>7. Len(fetched) \in Nat
    BY <1>1
  <2>8. ASSUME ~DroppedBefore(o)' PROVE Ahead(o)'
    <3>1. ~DroppedBefore(o)
      BY <2>2, <2>3, <2>8 DEF DroppedBefore
    <3>2. Ahead(o)
      BY <2>6, <3>1
    <3>3. QED BY <2>2, <2>5, <2>7, <3>2 DEF Ahead, Fetched
  <2>9. ASSUME ~CreatedBefore(o)' PROVE Behind(o)'
    <3>1. ~CreatedBefore(o) /\ \A d \in catalogue' \ catalogue : Promised(d) => ~(d.name <= o.name)
      BY <2>2, <2>3, <2>9 DEF CreatedBefore
    <3>2. Behind(o) /\ Place(o)' = Place(o)
      BY <2>5, <2>6, <3>1
    <3>3. QED BY <2>2, <3>2 DEF Behind, Once, Fetched
  <2>10. QED BY <2>8, <2>9
<1>5. ASSUME NEW x \in Roots, Drop(x) PROVE ShiftInv'
  <2>1. catalogue' \subseteq catalogue
    BY <1>1, <1>5, DropEffect
  <2>2. /\ request' = request /\ pc' = pc /\ first' = first /\ fetched' = fetched /\ pc = "paging"
        /\ removed' = removed \cup (catalogue \ catalogue') /\ added' = added
    BY <1>5 DEF Drop
  <2> SUFFICES ASSUME first = 0, NEW o, o \in Listed' \ added'
               PROVE  (~DroppedBefore(o)' => Ahead(o)') /\ (~CreatedBefore(o)' => Behind(o)')
    BY <2>2 DEF ShiftInv
  <2>3. \A d : Promised(d)' <=> Promised(d)
    BY <2>2, SamePromise
  <2>4. /\ o \in Listed /\ Place(o) \in Nat /\ Place(o)' \in Nat /\ Place(o)' <= Place(o)
        /\ (\A d \in (catalogue \ catalogue') \ {o} : Promised(d) => ~(d.name <= o.name)) => Place(o)' = Place(o)
    BY <1>1, <2>1, <2>2, PlaceAfterDrop
  <2>5. (~DroppedBefore(o) => Ahead(o)) /\ (~CreatedBefore(o) => Behind(o))
    BY <2>2, <2>4 DEF ShiftInv
  <2>6. Len(fetched) \in Nat
    BY <1>1
  <2>7. ASSUME ~DroppedBefore(o)' PROVE Ahead(o)'
    <3>1. ~DroppedBefore(o) /\ \A d \in (catalogue \ catalogue') \ {o} : Promised(d) => ~(d.name <= o.name)
      BY <2>2, <2>3, <2>7 DEF DroppedBefore
    <3>2. Ahead(o) /\ Place(o)' = Place(o)
      BY <2>4, <2>5, <3>1
    <3>3. QED BY <2>2, <3>2 DEF Ahead, Fetched
  <2>8. ASSUME ~CreatedBefore(o)' PROVE Behind(o)'
    <3>1. ~CreatedBefore(o)
      BY <2>2, <2>3, <2>8 DEF CreatedBefore
    <3>2. Behind(o)
      BY <2>5, <3>1
    <3>3. QED BY <2>2, <2>4, <2>6, <3>2 DEF Behind, Once, Fetched
  <2>9. QED BY <2>7, <2>8
<1>6. CASE UNCHANGED vars
  <2>1. /\ request' = request /\ pc' = pc /\ first' = first /\ fetched' = fetched /\ catalogue' = catalogue
        /\ removed' = removed /\ added' = added
    BY <1>6 DEF vars
  <2>2. Order' = Order /\ Listed' = Listed /\ \A d : Promised(d)' <=> Promised(d)
    BY <2>1, SamePromise DEF Listed
  <2> SUFFICES ASSUME pc # "idle", first = 0, NEW o, o \in Listed' \ added'
               PROVE  (~DroppedBefore(o)' => Ahead(o)') /\ (~CreatedBefore(o)' => Behind(o)')
    BY <2>1 DEF ShiftInv
  <2>3. (~DroppedBefore(o) => Ahead(o)) /\ (~CreatedBefore(o) => Behind(o))
    BY <2>1, <2>2 DEF ShiftInv
  <2>4. Place(o)' = Place(o)
    BY <2>2 DEF Place, Rank, Below
  <2>5. (DroppedBefore(o)' <=> DroppedBefore(o)) /\ (CreatedBefore(o)' <=> CreatedBefore(o))
    BY <2>1, <2>2 DEF DroppedBefore, CreatedBefore
  <2>6. (Ahead(o)' <=> Ahead(o)) /\ (Behind(o)' <=> Behind(o))
    BY <2>1, <2>4 DEF Ahead, Behind, Once, Fetched
  <2>7. QED BY <2>3, <2>5, <2>6
<1>7. QED BY <1>2, <1>3, <1>4, <1>5, <1>6 DEF Next

(* What others do between two calls skips nothing and repeats nothing that *)
(* it does not come before, whatever the size of the pages and however     *)
(* often they do it.                                                       *)
THEOREM ChangesOnlyShift == Spec => []ChangesShiftOnly
<1>1. Init => PagingInv /\ ShiftInv
  BY PagingInit DEF Init, ShiftInv
<1>2. PagingInv /\ ShiftInv /\ [Next]_vars => PagingInv' /\ ShiftInv'
  BY PagingStep, ShiftStep
<1>3. ASSUME PagingInv, ShiftInv PROVE ChangesShiftOnly
  <2> SUFFICES ASSUME pc = "end", first = 0, NEW o \in catalogue \ added, Promised(o)
               PROVE  LET times == Cardinality({i \in DOMAIN fetched : fetched[i] = o})
                      IN /\ times = 0 => \E d \in removed \ {o} : Promised(d) /\ d.name <= o.name
                         /\ times > 1 => \E d \in added : Promised(d) /\ d.name <= o.name
    BY DEF ChangesShiftOnly
  <2> DEFINE at == {i \in DOMAIN fetched : fetched[i] = o}
  <2>1. (~DroppedBefore(o) => Ahead(o)) /\ (~CreatedBefore(o) => Behind(o))
    BY <1>3 DEF ShiftInv, Listed
  <2>2. at \in SUBSET (1..Len(fetched)) /\ Len(fetched) \in Nat
    BY <1>3 DEF PagingInv, TypeOK
  <2>3. IsFiniteSet(at)
    BY <2>2, FS_Interval, FS_Subset
  <2>4. ASSUME Cardinality(at) = 0 PROVE DroppedBefore(o)
    <3>1. at = {}
      BY <2>3, <2>4, FS_EmptySet
    <3>2. ~ Ahead(o)
      BY <3>1 DEF Ahead, Fetched
    <3>3. QED BY <2>1, <3>2
  <2>5. ASSUME Cardinality(at) > 1 PROVE CreatedBefore(o)
    <3>1. ASSUME Once(o) PROVE FALSE
      <4>1. at # {} /\ \A i, j \in at : i = j
        BY <2>5, <3>1, FS_EmptySet DEF Once
      <4>2. PICK i \in at : at = {i}
        BY <4>1
      <4>3. QED BY <2>5, <4>2, FS_Singleton
    <3>2. QED BY <2>1, <3>1 DEF Behind
  <2>6. QED BY <2>4, <2>5 DEF DroppedBefore, CreatedBefore
<1>4. QED BY <1>1, <1>2, <1>3, PTL DEF Spec

-----------------------------------------------------------------------------
(* StableListedOnce: what a detailed page shows of a table. *)

(* A database has one relation of a name in a schema.                      *)
LEMMA OneRelation ==
  ASSUME request \in Requests, NEW t \in Objects, NEW u \in Objects,
         t.kind \in Relations, u.kind \in Relations, t.name = u.name, t.db = u.db, t.schema = u.schema
  PROVE  t = u
<1>1. request.backend \in DOMAIN World /\ World[request.backend] = Objects
  BY RequestFacts DEF Objects
<1>2. t.kind \notin PartKinds /\ t.kind \notin {"function", "procedure", "trigger"}
  BY DEF Relations, PartKinds, Keys, TableKinds
<1>3. QED BY <1>1, <1>2, NamesAssumption

(* A part's table, as the queries find it.                                 *)
LEMMA PartFacts ==
  ASSUME request \in Requests, catalogue \subseteq Objects, Closed, NEW q \in catalogue, q.on # 0
  PROVE  \E u \in catalogue : /\ u.id = q.on /\ u.kind \in Relations /\ u.db = q.db /\ u.schema = q.schema
                              /\ NameOfTable(catalogue, q) = u.name /\ u \in Objects
<1>1. PICK u \in catalogue : u.id = q.on
  BY DEF Closed
<1>2. PICK v \in Objects : v.id = q.on /\ v.kind \in Relations /\ v.db = q.db /\ v.schema = q.schema
  BY ObjectFacts
<1>3. u = v
  BY <1>1, <1>2, ObjectFacts
<1>4. NameOfTable(catalogue, q) = u.name
  BY <1>1, TableOf
<1>5. QED BY <1>1, <1>2, <1>3, <1>4

(* A listed table is one object's own.                                     *)
LEMMA ListedTable ==
  ASSUME request \in Requests, catalogue \subseteq Objects, request.tool = "listTables", NEW t \in Listed
  PROVE  /\ t \in Objects /\ t \in catalogue /\ t.kind \in TableKinds /\ t.kind \in Relations /\ t.kind # "database"
         /\ t.id # 0 /\ t.db = Database(request) /\ t.schema \in Schemas[request.backend] \ {"private"}
<1>1. t \in Objects /\ t \in catalogue /\ Promised(t)
  BY DEF Listed
<1>2. KindsOf["listTables"] = TableKinds
  BY DEF KindsOf
<1>3. t.kind \in TableKinds /\ t.kind \in Relations /\ t.kind # "database"
  BY <1>1, <1>2 DEF Promised, Relations, TableKinds
<1>4. t.id \in 1..(I64Max - 1)
  BY <1>1, ObjectFacts
<1>5. QED BY <1>1, <1>3, <1>4, ListedFacts

(* PostgreSQL knows a part's table by its OID.                             *)
LEMMA PgPartsPromised ==
  ASSUME request \in Requests, catalogue \subseteq Objects, request.tool = "listTables", request.backend = "postgres",
         NEW t \in Listed
  PROVE  PgParts(catalogue, t) = PromisedParts(t)
<1>1. ASSUME NEW q \in catalogue, q.on = t.id
      PROVE  (q.kind \in Keys \cup {"column", "check", "index", "trigger"} /\ q.flags \cap {"internal", "dropped"} = {})
               <=> q.flags \subseteq {"no sql"}
  <2>1. q.kind \in PartKinds /\ q.flags \subseteq HiddenBy("postgres", q.kind)
    BY <1>1, ObjectFacts, ListedTable
  <2>2. q.flags \subseteq {"internal", "dropped"}
    BY <2>1 DEF HiddenBy, PartKinds, Keys, TableKinds
  <2>3. q.kind \in Keys \cup {"column", "check", "index", "trigger"}
    BY <2>1 DEF PartKinds
  <2>4. QED BY <2>2, <2>3
<1>2. {q \in catalogue : q.on = t.id /\ q.kind \in Keys \cup {"column", "check", "index", "trigger"}
                         /\ q.flags \cap {"internal", "dropped"} = {}}
      = {q \in catalogue : q.on = t.id /\ q.flags \subseteq {"no sql"} /\ (request.backend = "sqlite" => q.kind # "check")}
  BY <1>1
<1>3. QED BY <1>2 DEF PgParts, PromisedParts

(* SQLite knows a trigger's table by its name, of which it has one.        *)
LEMMA SqlitePartsPromised ==
  ASSUME request \in Requests, catalogue \subseteq Objects, Closed, request.tool = "listTables",
         request.backend = "sqlite", NEW t \in Listed
  PROVE  SqliteParts(catalogue, t) = PromisedParts(t)
<1> DEFINE A == {q \in catalogue : q.on = t.id /\ q.kind \in Keys \cup {"column", "index"}}
           B == {q \in catalogue : q.kind = "trigger" /\ q.schema = "main" /\ NameOfTable(catalogue, q) = t.name}
           C == {q \in catalogue : q.on = t.id /\ q.flags \subseteq {"no sql"}
                                   /\ (request.backend = "sqlite" => q.kind # "check")}
<1>1. t \in Objects /\ t \in catalogue /\ t.kind \in Relations /\ t.id # 0 /\ t.schema = "main"
  BY ListedTable DEF Schemas
<1>2. ASSUME NEW q \in catalogue, q.kind = "trigger"
      PROVE  (q.schema = "main" /\ NameOfTable(catalogue, q) = t.name) <=> q.on = t.id
  <2>1. q \in Objects /\ q.on # 0 /\ q.schema \in {"main"}
    BY <1>2, ObjectFacts DEF PartKinds, Schemas
  <2>2. PICK u \in catalogue : /\ u.id = q.on /\ u.kind \in Relations /\ u.db = q.db /\ u.schema = q.schema
                               /\ NameOfTable(catalogue, q) = u.name /\ u \in Objects
    BY <2>1, PartFacts
  <2>3. u.db = t.db
    BY <1>1, <2>2, RequestFacts
  <2>4. u.name = t.name => u = t
    BY <1>1, <2>1, <2>2, <2>3, OneRelation
  <2>5. q.on = t.id => u = t
    BY <1>1, <2>2, ObjectFacts
  <2>6. QED BY <2>1, <2>2, <2>4, <2>5
<1>3. ASSUME NEW q \in catalogue, q.on = t.id
      PROVE  (q.flags \subseteq {"no sql"} /\ q.kind # "check") <=> q.kind \in Keys \cup {"column", "index", "trigger"}
  <2>1. q.kind \in PartKinds /\ q.flags \subseteq HiddenBy("sqlite", q.kind)
    BY <1>1, <1>3, ObjectFacts
  <2>2. q.flags \subseteq {"no sql"}
    BY <2>1 DEF HiddenBy, PartKinds, Keys, TableKinds
  <2>3. QED BY <2>1, <2>2 DEF PartKinds, Keys
<1>4. C = A \cup B
  <2>1. \A q \in catalogue : q \in B <=> q.kind = "trigger" /\ q.on = t.id
    BY <1>2
  <2>2. \A q \in catalogue : q \in C <=> q.on = t.id /\ q.kind \in Keys \cup {"column", "index", "trigger"}
    BY <1>3
  <2>3. \A q \in catalogue : q \in C <=> q \in A \/ q \in B
    BY <2>1, <2>2
  <2>4. QED BY <2>3
<1> HIDE DEF A, B, C
<1>5. {Own(q) : q \in A} \cup {Own(q) : q \in B} = {Own(q) : q \in C}
  BY <1>4
<1>6. QED BY <1>5 DEF SqliteParts, PromisedParts, A, B, C

(* MySQL knows every part's table by its name, and joins a constraint to   *)
(* its columns, its rules and its table by the constraint's: what it shows *)
(* of a table is right up to the names that it confuses.                   *)
LEMMA MysqlPartsPromised ==
  ASSUME request \in Requests, catalogue \subseteq Objects, Closed, request.tool = "listTables",
         request.backend = "mysql", NEW t \in Listed
  PROVE  /\ Clear(MysqlParts(catalogue, t), t) = Clear(PromisedParts(t), t)
         /\ \A s \in PromisedParts(t) : \E u \in MysqlParts(catalogue, t) : u.kind = s.kind /\ u.name = s.name
<1> DEFINE on == MysqlOn(catalogue, t)
           usage(p) == {q \in on : q.kind \in Keys /\ q.name = p.name}
           rules(p) == {q \in catalogue : "foreign" = p.kind /\ "foreign" = q.kind /\ q.db = t.db /\ q.name = p.name}
           tables(p) == {q \in on : q.kind \in Keys \cup {"check"} /\ q.name = p.name}
           K == {q \in on : q.kind \in Keys}
           D == {q \in on : q.kind \in {"column", "index", "trigger"}}
           E == {q \in catalogue : q.kind = "check" /\ q.db = t.db /\ tables(q) # {}}
           C == {q \in catalogue : q.on = t.id /\ q.flags \subseteq {"no sql"}
                                   /\ (request.backend = "sqlite" => q.kind # "check")}
           key(p) == Part(p, UNION {q.cols : q \in usage(p)}, usage(p) \cup rules(p))
           check(p) == Part(p, {}, {p} \cup tables(p))
           plain(q) == q.kind \in Constraints => q.name \notin Mistakable(t)
<1>1. /\ t \in Objects /\ t \in catalogue /\ t.kind \in Relations /\ t.id # 0 /\ t.kind # "database"
      /\ \A o \in Objects : o.kind # "database" => o.schema = "public"
      /\ \A o \in Objects : o.flags \subseteq {}
      /\ "mysql" \in DOMAIN World /\ Objects = World["mysql"]
  BY ListedTable, RequestFacts, ObjectFacts DEF Schemas, HiddenBy, Objects
<1>2. on = {q \in catalogue : q.on = t.id}
  <2>1. ASSUME NEW q \in catalogue
        PROVE  (q.on # 0 /\ q.db = t.db /\ NameOfTable(catalogue, q) = t.name) <=> q.on = t.id
    <3>1. ASSUME q.on # 0 PROVE (q.db = t.db /\ NameOfTable(catalogue, q) = t.name) <=> q.on = t.id
      <4>1. PICK u \in catalogue : /\ u.id = q.on /\ u.kind \in Relations /\ u.db = q.db /\ u.schema = q.schema
                                   /\ NameOfTable(catalogue, q) = u.name /\ u \in Objects
        BY <3>1, PartFacts
      <4>2. u.schema = "public" /\ t.schema = "public"
        BY <1>1, <4>1 DEF Relations, TableKinds
      <4>3. u.name = t.name /\ u.db = t.db => u = t
        BY <1>1, <4>1, <4>2, OneRelation
      <4>4. q.on = t.id => u = t
        BY <1>1, <4>1, ObjectFacts
      <4>5. QED BY <4>1, <4>3, <4>4
    <3>2. QED BY <1>1, <3>1
  <2>2. QED BY <2>1 DEF MysqlOn
<1>3. \A q \in on : q \in catalogue /\ q \in Objects /\ q.on = t.id /\ q.db = t.db /\ q.kind \in PartKinds
  <2>1. ASSUME NEW q \in on PROVE q \in catalogue /\ q \in Objects /\ q.on = t.id /\ q.db = t.db /\ q.kind \in PartKinds
    <3>1. q \in catalogue /\ q \in Objects /\ q.on = t.id /\ q.on # 0
      BY <1>1, <1>2
    <3>2. q.kind \in PartKinds
      BY <3>1, ObjectFacts
    <3>3. PICK u \in Objects : u.id = q.on /\ u.db = q.db
      BY <3>1, ObjectFacts
    <3>4. u = t
      BY <1>1, <3>1, <3>3, ObjectFacts
    <3>5. QED BY <3>1, <3>2, <3>3, <3>4
  <2>2. QED BY <2>1
<1> HIDE DEF on
<1>4. ASSUME NEW p \in on, NEW q \in catalogue, Confused(p, q) PROVE p.name \in Mistakable(t)
  BY <1>3, <1>4 DEF Mistakable
<1>5. ASSUME NEW p \in K, plain(p) PROVE key(p) = Own(p)
  <2>1. p \in on /\ p.kind \in Keys /\ p.kind \in Constraints /\ p.name \notin Mistakable(t) /\ p.on = t.id /\ p.db = t.db
    BY <1>3, <1>5 DEF Constraints
  <2>2. usage(p) = {p}
    <3>1. ASSUME NEW q \in usage(p) PROVE q = p
      <4>1. q \in on /\ q \in catalogue /\ q.kind \in Constraints /\ q.name = p.name /\ q.on = t.id /\ q.db = t.db
        BY <1>3 DEF Constraints
      <4>2. q # p => Confused(p, q)
        BY <2>1, <4>1 DEF Confused
      <4>3. QED BY <1>4, <2>1, <4>1, <4>2
    <3>2. p \in usage(p)
      BY <2>1
    <3>3. QED BY <3>1, <3>2
  <2>3. rules(p) \subseteq {p}
    <3>1. ASSUME NEW q \in rules(p) PROVE q = p
      <4>1. q \in catalogue /\ p.kind = "foreign" /\ q.kind = "foreign" /\ q.kind \in Constraints
            /\ q.name = p.name /\ q.db = t.db
        BY DEF Constraints, Keys
      <4>2. q # p => Confused(p, q)
        BY <2>1, <4>1 DEF Confused
      <4>3. QED BY <1>4, <2>1, <4>1, <4>2
    <3>2. QED BY <3>1
  <2> HIDE DEF usage, rules
  <2>4. UNION {q.cols : q \in usage(p)} = p.cols /\ usage(p) \cup rules(p) = {p}
    BY <2>2, <2>3
  <2>5. QED BY <2>4 DEF Own
<1>6. ASSUME NEW p \in E, NEW c \in tables(p), c # p
      PROVE  p.kind \in Constraints /\ p.name \in Mistakable(t)
  <2>1. p \in catalogue /\ p.kind = "check" /\ p.db = t.db /\ p.kind \in Constraints
    BY DEF Constraints
  <2>2. c \in on /\ c.kind \in Constraints /\ c.name = p.name /\ c.db = t.db
    BY <1>3 DEF Constraints
  <2>3. Confused(c, p)
    BY <1>6, <2>1, <2>2 DEF Confused
  <2>4. QED BY <1>4, <2>1, <2>2, <2>3
<1>7. ASSUME NEW p \in E, plain(p) PROVE p \in on /\ p.kind = "check" /\ check(p) = Own(p)
  <2>1. \A c \in tables(p) : c = p
    BY <1>6, <1>7
  <2>2. tables(p) # {} /\ p \in catalogue /\ p.kind = "check"
    OBVIOUS
  <2>3. p \in tables(p)
    BY <2>1, <2>2
  <2>4. p \in on /\ p.cols = {}
    BY <1>3, <2>2, <2>3, ObjectFacts
  <2> HIDE DEF tables, E
  <2>5. {p} \cup tables(p) = {p}
    BY <2>1
  <2>6. QED BY <2>2, <2>4, <2>5 DEF Own
<1>8. ASSUME NEW q \in on, q.kind = "check" PROVE q \in E
  <2>1. q \in tables(q) /\ q \in catalogue /\ q.db = t.db
    BY <1>3, <1>8
  <2>2. QED BY <1>8, <2>1
<1>9. \A q \in catalogue : q \in C <=> q \in on
  BY <1>1, <1>2
<1>10. \A q \in on : q \in K \/ q \in D \/ q \in E
  <2>1. \A q \in on : q.kind \in Keys \/ q.kind \in {"column", "index", "trigger"} \/ q.kind = "check"
    BY <1>3 DEF PartKinds
  <2> HIDE DEF E
  <2>2. QED BY <1>8, <2>1
<1>11. /\ \A q \in K : q \in catalogue /\ q \in on
       /\ \A q \in D : q \in catalogue /\ q \in on
       /\ \A q \in C : q \in catalogue
  BY <1>3
<1>12. MysqlParts(catalogue, t) = {key(q) : q \in K} \cup {Own(q) : q \in D} \cup {check(q) : q \in E}
  BY DEF MysqlParts, on
<1>13. /\ \A q : key(q).kind = q.kind /\ key(q).name = q.name
       /\ \A q : check(q).kind = q.kind /\ check(q).name = q.name
       /\ \A q : Own(q).kind = q.kind /\ Own(q).name = q.name
  BY DEF Part, Own
<1>14. PromisedParts(t) = {Own(q) : q \in C}
  BY DEF PromisedParts
<1> HIDE DEF K, D, E, C, usage, rules, tables, key, check
<1>15. ASSUME NEW s, s \in Clear(MysqlParts(catalogue, t), t) PROVE s \in Clear(PromisedParts(t), t)
  <2>1. s \in MysqlParts(catalogue, t) /\ (s.kind \in Constraints => s.name \notin Mistakable(t))
    BY <1>15 DEF Clear
  <2>2. CASE \E q \in K : s = key(q)
    <3>1. PICK q \in K : s = key(q)
      BY <2>2
    <3>2. plain(q)
      BY <1>13, <2>1, <3>1
    <3>3. s = Own(q) /\ q \in C
      BY <1>5, <1>9, <1>11, <3>1, <3>2
    <3>4. QED BY <1>14, <2>1, <3>3 DEF Clear
  <2>3. CASE \E q \in D : s = Own(q)
    <3>1. PICK q \in D : s = Own(q)
      BY <2>3
    <3>2. q \in C
      BY <1>9, <1>11
    <3>3. QED BY <1>14, <2>1, <3>1, <3>2 DEF Clear
  <2>4. CASE \E q \in E : s = check(q)
    <3>1. PICK q \in E : s = check(q)
      BY <2>4
    <3>2. plain(q)
      BY <1>13, <2>1, <3>1
    <3>3. s = Own(q) /\ q \in C
      BY <1>3, <1>7, <1>9, <3>1, <3>2
    <3>4. QED BY <1>14, <2>1, <3>3 DEF Clear
  <2>5. QED BY <1>12, <2>1, <2>2, <2>3, <2>4
<1>16. ASSUME NEW s, s \in Clear(PromisedParts(t), t) PROVE s \in Clear(MysqlParts(catalogue, t), t)
  <2>1. s \in PromisedParts(t) /\ (s.kind \in Constraints => s.name \notin Mistakable(t))
    BY <1>16 DEF Clear
  <2>2. PICK q \in C : s = Own(q)
    BY <1>14, <2>1
  <2>3. q \in on /\ plain(q)
    BY <1>9, <1>11, <1>13, <2>1, <2>2
  <2>4. CASE q \in K
    BY <1>5, <1>12, <2>1, <2>2, <2>3, <2>4 DEF Clear
  <2>5. CASE q \in D
    BY <1>12, <2>1, <2>2, <2>5 DEF Clear
  <2>6. CASE q \in E
    BY <1>7, <1>12, <2>1, <2>2, <2>3, <2>6 DEF Clear
  <2>7. QED BY <1>10, <2>3, <2>4, <2>5, <2>6
<1>17. ASSUME NEW s \in PromisedParts(t)
       PROVE  \E u \in MysqlParts(catalogue, t) : u.kind = s.kind /\ u.name = s.name
  <2>1. PICK q \in C : s = Own(q)
    BY <1>14
  <2>2. q \in on
    BY <1>9, <1>11
  <2>3. CASE q \in K
    BY <1>12, <1>13, <2>1, <2>3
  <2>4. CASE q \in D
    BY <1>12, <2>1, <2>4
  <2>5. CASE q \in E
    BY <1>12, <1>13, <2>1, <2>5
  <2>6. QED BY <1>10, <2>2, <2>3, <2>4, <2>5
<1>18. QED BY <1>15, <1>16, <1>17

(* The parts that a detailed query selects of a table, and its entry.      *)
PartsOf(t) ==
  CASE request.backend = "mysql" -> MysqlParts(catalogue, t)
    [] request.backend = "postgres" -> PgParts(catalogue, t)
    [] request.backend = "sqlite" -> SqliteParts(catalogue, t)
Entry(t) == [name |-> <<t.name>>, parts |-> PartsOf(t)]

(* The entry of a listed table shows that table.                           *)
LEMMA EntryShown ==
  ASSUME request \in Requests, catalogue \subseteq Objects, Closed, request.tool = "listTables", NEW t \in Listed
  PROVE  ShownAs(Entry(t), t)
<1>1. request.backend \in {"mysql", "postgres", "sqlite"}
  BY RequestFacts
<1>2. Entry(t).name = <<t.name>> /\ Entry(t).parts = PartsOf(t)
  BY DEF Entry
<1>3. CASE request.backend = "mysql"
  <2>1. PartsOf(t) = MysqlParts(catalogue, t)
    BY <1>3 DEF PartsOf
  <2>2. QED BY <1>2, <1>3, <2>1, MysqlPartsPromised DEF ShownAs
<1>4. CASE request.backend \in {"postgres", "sqlite"}
  <2>1. PartsOf(t) = PromisedParts(t)
    BY <1>4, PgPartsPromised, SqlitePartsPromised DEF PartsOf
  <2>2. QED BY <1>2, <2>1 DEF ShownAs
<1>5. QED BY <1>1, <1>3, <1>4

(* A detailed row of a table becomes the table's entry.                    *)
LEMMA TableRows ==
  ASSUME request \in Requests, catalogue \subseteq Objects, Closed, request.tool = "listTables", request.detailed,
         NEW row \in Selected(catalogue, request)
  PROVE  row.of \in Listed /\ row.name = <<row.of.name>> /\ row.parts = PartsOf(row.of)
<1> DEFINE b == request.backend
<1>1. row.of \in Listed
  BY SelectedRows DEF StandFor
<1>2. b \in {"mysql", "postgres", "sqlite"}
  BY RequestFacts
<1>3. CASE b = "mysql"
  <2>1. \E t : row = Row(t, 0, <<t.name>>, MysqlParts(catalogue, t))
    BY <1>3 DEF Selected, MysqlSelected, MysqlTables
  <2>2. row.name = <<row.of.name>> /\ row.parts = MysqlParts(catalogue, row.of)
    BY <2>1 DEF Row
  <2>3. QED BY <1>1, <1>3, <2>2 DEF PartsOf
<1>4. CASE b = "postgres"
  <2>1. \E t : row = Row(t, 0, <<t.name>>, PgParts(catalogue, t))
    BY <1>4 DEF Selected, PgSelected, PgTables
  <2>2. row.name = <<row.of.name>> /\ row.parts = PgParts(catalogue, row.of)
    BY <2>1 DEF Row
  <2>3. QED BY <1>1, <1>4, <2>2 DEF PartsOf
<1>5. CASE b = "sqlite"
  <2>1. \E t : row = Row(t, 0, <<t.name>>, SqliteParts(catalogue, t))
    BY <1>5 DEF Selected, SqliteSelected, SqliteTables
  <2>2. row.name = <<row.of.name>> /\ row.parts = SqliteParts(catalogue, row.of)
    BY <2>1 DEF Row
  <2>3. QED BY <1>1, <1>5, <2>2 DEF PartsOf
<1>6. QED BY <1>2, <1>3, <1>4, <1>5

(* Some of finitely many numbers have a least and a greatest, and a place. *)
LEMMA NumbersInOrder ==
  ASSUME NEW n \in Nat, NEW T \in SUBSET (1..n)
  PROVE  /\ IsFiniteSet(T) /\ Cardinality(T) \in Nat
         /\ \A k \in 1..Cardinality(T) : \E i \in T : Cardinality({j \in T : j < i}) = k - 1
         /\ T # {} => \E i \in T : \A j \in T : j <= i
<1> DEFINE R == {w \in T \X T : w[1] < w[2]}
           Q == {w \in T \X T : w[2] < w[1]}
<1>1. IsFiniteSet(T) /\ Cardinality(T) \in Nat
  <2>1. IsFiniteSet(1..n)
    BY FS_Interval
  <2>2. IsFiniteSet(T)
    BY <2>1, FS_Subset
  <2>3. QED BY <2>2, FS_CardinalityType
<1>2. \A i \in T : i \in Nat
  OBVIOUS
<1>3. \A i, j \in T : (<<i, j>> \in R <=> i < j) /\ (<<i, j>> \in Q <=> j < i)
  OBVIOUS
<1>4. StrictOrder(T, R) /\ StrictOrder(T, Q)
  <2> HIDE DEF R, Q
  <2>1. QED BY <1>2, <1>3 DEF StrictOrder
<1> HIDE DEF R, Q
<1>placed. Placed(T, R) /\ Placed(T, Q)
  BY <1>1, <1>4, Places
<1>5. ASSUME NEW k \in 1..Cardinality(T) PROVE \E i \in T : Cardinality({j \in T : j < i}) = k - 1
  <2>1. k - 1 \in 0..(Cardinality(T) - 1)
    BY <1>1
  <2>2. PICK i \in T : Rank(T, R, i) = k - 1
    BY <1>placed, <2>1 DEF Placed
  <2>3. Below(T, R, i) = {j \in T : j < i}
    BY <1>3 DEF Below
  <2>4. QED BY <2>2, <2>3 DEF Rank
<1>6. ASSUME T # {} PROVE \E i \in T : \A j \in T : j <= i
  <2>1. Cardinality(T) # 0
    BY <1>1, <1>6, FS_EmptySet
  <2>2. 0 \in 0..(Cardinality(T) - 1)
    BY <1>1, <2>1
  <2>3. PICK i \in T : Rank(T, Q, i) = 0
    BY <1>placed, <2>2 DEF Placed
  <2>4. Below(T, Q, i) \in SUBSET T
    BY DEF Below
  <2>5. Below(T, Q, i) = {}
    BY <1>1, <2>3, <2>4, FS_Subset, FS_EmptySet DEF Rank
  <2>6. \A j \in T : ~(i < j)
    BY <1>3, <2>5 DEF Below
  <2>7. QED BY <1>2, <2>6
<1>7. QED BY <1>1, <1>5, <1>6

(* The entries of a page are those of some of its rows.                    *)
LEMMA KeyedEntries ==
  ASSUME NEW S, NEW page \in Seq(S), NEW F,
         \A i \in DOMAIN page : [name |-> page[i].name, parts |-> page[i].parts] \in F
  PROVE  Keyed(page) \in Seq(F)
<1> DEFINE n == Len(page)
           firsts == {i \in DOMAIN page : \A j \in 1..(i - 1) : page[j].name # page[i].name}
           order == [k \in 1..Cardinality(firsts) |->
                       CHOOSE i \in firsts : Cardinality({j \in firsts : j < i}) = k - 1]
           last(i) == CHOOSE l \in DOMAIN page : /\ page[l].name = page[i].name
                                                 /\ \A j \in DOMAIN page : j > l => page[j].name # page[i].name
           entry(l) == [name |-> page[l].name, parts |-> page[l].parts]
<1>1. n \in Nat /\ DOMAIN page = 1..n /\ firsts \in SUBSET (1..n)
  OBVIOUS
<1>2. \A k \in 1..Cardinality(firsts) : order[k] \in firsts
  <2> HIDE DEF firsts
  <2>1. \A k \in 1..Cardinality(firsts) : \E i \in firsts : Cardinality({j \in firsts : j < i}) = k - 1
    BY <1>1, NumbersInOrder
  <2>2. QED BY <2>1
<1>3. ASSUME NEW i \in DOMAIN page PROVE last(i) \in DOMAIN page
  <2> DEFINE T == {l \in 1..n : page[l].name = page[i].name}
  <2>1. T \in SUBSET (1..n) /\ T # {}
    BY <1>1
  <2>2. PICK l \in T : \A j \in T : j <= l
    <3> HIDE DEF T
    <3>1. QED BY <1>1, <2>1, NumbersInOrder
  <2>3. \A j \in DOMAIN page : j > l => page[j].name # page[i].name
    BY <1>1, <2>2
  <2>4. l \in DOMAIN page /\ page[l].name = page[i].name
    BY <1>1
  <2>5. \E m \in DOMAIN page : /\ page[m].name = page[i].name
                               /\ \A j \in DOMAIN page : j > m => page[j].name # page[i].name
    BY <2>3, <2>4
  <2>6. QED BY <2>5
<1>4. Cardinality(firsts) \in Nat
  <2> HIDE DEF firsts
  <2>1. QED BY <1>1, NumbersInOrder
<1>5. Keyed(page) = [k \in DOMAIN order |-> entry(last(order[k]))]
  BY DEF Keyed
<1>6. DOMAIN order = 1..Cardinality(firsts) /\ \A i \in firsts : i \in DOMAIN page
  OBVIOUS
<1>7. \A l \in DOMAIN page : entry(l) \in F
  OBVIOUS
<1> HIDE DEF firsts, order, last, entry
<1>8. \A k \in 1..Cardinality(firsts) : entry(last(order[k])) \in F
  BY <1>2, <1>3, <1>6, <1>7
<1>9. Keyed(page) \in [1..Cardinality(firsts) -> F]
  BY <1>5, <1>6, <1>8
<1>10. QED BY <1>4, <1>9

-----------------------------------------------------------------------------
(* StableListedOnce. As long as nothing changes, the objects fetched so    *)
(* far are those that follow the start, each in its place, and the entries *)
(* shown are those of tables fetched.                                      *)
Got == {fetched[i] : i \in DOMAIN fetched}
StableInv ==
  Stable /\ pc # "idle" =>
    /\ \A i \in 1..Len(fetched) : fetched[i] \in Listed /\ Place(fetched[i]) = first + i - 1
    /\ pc = "end" => Len(fetched) = IF first < Cardinality(Listed) THEN Cardinality(Listed) - first ELSE 0
    /\ request.tool = "listTables" => shown \in Seq({Entry(t) : t \in Got})

(* A page adds what follows what was fetched, and the last one the rest.   *)
LEMMA StableCall ==
  ASSUME PagingInv, StableInv, ListEntries PROVE StableInv'
<1> DEFINE n == Cardinality(Listed)
           off == Offset(cursor)
           size == request.size
<1>1. TypeOK /\ Closed /\ Follows /\ request \in Requests /\ catalogue \subseteq Objects
  BY DEF PagingInv, TypeOK
<1>2. /\ pc = "paging" /\ catalogue' = catalogue /\ request' = request /\ first' = first
      /\ added' = added /\ removed' = removed
  BY DEF ListEntries
<1> SUFFICES ASSUME Stable
             PROVE  /\ \A i \in 1..Len(fetched') : fetched'[i] \in Listed' /\ Place(fetched[i])' = first' + i - 1
                    /\ pc' = "end" =>
                         Len(fetched') = IF first' < Cardinality(Listed') THEN Cardinality(Listed') - first'
                                                      ELSE 0
                    /\ request'.tool = "listTables" => shown' \in Seq({Entry(t)' : t \in Got'})
  BY <1>2 DEF StableInv, Stable
<1>3. PICK page, of :
        /\ page \in Seq(Selected(catalogue, request)) /\ Len(page) = PageLength(off)
        /\ of \in Seq(Objects) /\ Len(of) = PageLength(off)
        /\ \A i \in 1..Len(of) : /\ page[i] \in Selected(catalogue, request) /\ of[i] = page[i].of
                                 /\ of[i] \in Listed /\ Place(of[i]) = off + i - 1
        /\ fetched' = fetched \o of
        /\ shown' = IF request.detailed THEN shown \o Keyed(page) ELSE shown
        /\ IF n > off + size THEN pc' = "paging" ELSE pc' = "end"
  BY <1>1, Calls
<1>4. /\ n \in Nat /\ n < I64Max /\ off \in Nat /\ size \in Nat \ {0} /\ I64Max \in Nat \ {0}
      /\ (At < I64Max => off = At) /\ (off < I64Max => off = At) /\ first \in Nat
  BY <1>1, FewListed, Begins, RequestFacts, WidthAssumption DEF TypeOK
<1>5. fetched \in Seq(Objects) /\ Len(fetched) \in Nat
  BY <1>1 DEF TypeOK
<1>6. At = first + Len(fetched) /\ (fetched # << >> => At < I64Max)
  BY <1>1, <1>2 DEF Follows
<1>7. /\ \A i \in 1..Len(fetched) : fetched[i] \in Listed /\ Place(fetched[i]) = first + i - 1
      /\ request.tool = "listTables" => shown \in Seq({Entry(t) : t \in Got})
  BY <1>2 DEF StableInv
<1>8. Listed' = Listed /\ Order' = Order /\ (\A o : Place(o)' = Place(o)) /\ (\A t : Entry(t)' = Entry(t))
  <2>1. Listed' = Listed /\ Order' = Order
    BY <1>2, SamePromise DEF Listed
  <2>2. \A o : Place(o)' = Place(o)
    BY <2>1 DEF Place, Rank, Below
  <2>3. \A t : Entry(t)' = Entry(t)
    BY <1>2 DEF Entry, PartsOf
  <2>4. QED BY <2>1, <2>2, <2>3
<1> PICK f : f = fetched'
  OBVIOUS
<1>9. /\ f \in Seq(Objects) /\ Len(f) = Len(fetched) + Len(of) /\ Len(of) \in Nat
      /\ \A i \in 1..(Len(fetched) + Len(of)) : f[i] = IF i <= Len(fetched) THEN fetched[i] ELSE of[i - Len(fetched)]
  <2>1. of \in Seq(Objects) /\ f = fetched \o of
    BY <1>3
  <2>2. QED BY ONLY <1>5, <2>1, ConcatProperties
<1>10. ASSUME NEW i \in 1..Len(f) PROVE f[i] \in Listed /\ Place(f[i]) = first + i - 1
  <2>1. CASE i <= Len(fetched)
    <3>1. i \in 1..Len(fetched) /\ f[i] = fetched[i]
      BY <1>5, <1>9, <2>1
    <3>2. QED BY <1>7, <3>1
  <2>2. CASE ~(i <= Len(fetched))
    <3>1. i - Len(fetched) \in 1..Len(of) /\ f[i] = of[i - Len(fetched)]
      BY <1>5, <1>9, <2>2
    <3>2. f[i] \in Listed /\ Place(f[i]) = off + (i - Len(fetched)) - 1
      BY <1>3, <3>1
    <3>3. PageLength(off) \in Nat /\ PageLength(off) # 0
      BY <1>3, <1>9, <3>1
    <3>4. off < I64Max
      BY <1>4, <3>3 DEF PageLength
    <3>5. off = first + Len(fetched)
      BY <1>4, <1>6, <3>4
    <3>6. off + (i - Len(fetched)) - 1 = first + i - 1
      BY <1>4, <1>5, <1>9, <3>5
    <3>7. QED BY <3>2, <3>6
  <2>3. QED BY <2>1, <2>2
<1>11. ASSUME pc' = "end" PROVE Len(f) = IF first < n THEN n - first ELSE 0
  <2>1. ~(n > off + size)
    BY <1>3, <1>11
  <2>2. PageLength(off) = IF off < n THEN n - off ELSE 0
    BY <1>4, <2>1 DEF PageLength
  <2>3. CASE Len(fetched) = 0
    <3>1. At = first /\ Len(f) = PageLength(off)
      BY <1>3, <1>4, <1>6, <1>9, <2>3
    <3>2. first < n => off = first
      BY <1>4, <3>1
    <3>3. off < n => off = first
      BY <1>4, <3>1
    <3>4. QED BY <1>4, <2>2, <3>1, <3>2, <3>3
  <2>4. CASE Len(fetched) # 0
    <3>1. fetched # << >>
      BY <2>4
    <3>2. off = first + Len(fetched)
      BY <1>4, <1>6, <3>1
    <3>3. Len(fetched) \in 1..Len(fetched)
      BY <1>5, <2>4
    <3>4. fetched[Len(fetched)] \in Listed /\ Place(fetched[Len(fetched)]) = first + Len(fetched) - 1
      BY <1>7, <3>3
    <3>5. Place(fetched[Len(fetched)]) \in 0..(n - 1)
      BY <1>1, <3>4, ListedPlaces
    <3>6. first + Len(fetched) <= n
      BY <1>4, <1>5, <3>4, <3>5
    <3>7. Len(f) = Len(fetched) + PageLength(off)
      BY <1>3, <1>9
    <3>8. QED BY <1>4, <1>5, <2>2, <2>4, <3>2, <3>6, <3>7
  <2>5. QED BY <2>3, <2>4
<1>12. ASSUME request.tool = "listTables" PROVE shown' \in Seq({Entry(t) : t \in Got'})
  <2> PICK got : got = {f[i] : i \in DOMAIN f}
    OBVIOUS
  <2>1. Got' = got
    BY DEF Got
  <2>2. Got \subseteq got
    <3>1. ASSUME NEW i \in DOMAIN fetched PROVE fetched[i] \in got
      <4>1. i \in 1..Len(fetched)
        BY <1>5
      <4>2. i \in DOMAIN f /\ f[i] = fetched[i]
        BY <1>5, <1>9, <4>1
      <4>3. QED BY <4>2
    <3>2. QED BY <3>1 DEF Got
  <2>3. shown \in Seq({Entry(t) : t \in got})
    BY <1>7, <1>12, <2>2
  <2>4. ASSUME request.detailed PROVE Keyed(page) \in Seq({Entry(t) : t \in got})
    <3>1. ASSUME NEW i \in DOMAIN page
          PROVE  [name |-> page[i].name, parts |-> page[i].parts] \in {Entry(t) : t \in got}
      <4>1. i \in 1..Len(of) /\ page[i] \in Selected(catalogue, request) /\ of[i] = page[i].of
        BY <1>3
      <4>2. page[i].name = <<of[i].name>> /\ page[i].parts = PartsOf(of[i])
        BY <1>1, <1>12, <2>4, <4>1, TableRows
      <4>3. Len(fetched) + i \in 1..Len(f) /\ f[Len(fetched) + i] = of[i]
        <5>1. /\ Len(fetched) + i \in 1..(Len(fetched) + Len(of)) /\ ~(Len(fetched) + i <= Len(fetched))
              /\ (Len(fetched) + i) - Len(fetched) = i
          BY <1>5, <1>9, <4>1
        <5>2. f[Len(fetched) + i] = of[(Len(fetched) + i) - Len(fetched)]
          BY <1>9, <5>1
        <5>3. QED BY <1>9, <5>1, <5>2
      <4>4. of[i] \in got
        BY <1>9, <4>3
      <4>5. QED BY <4>2, <4>4 DEF Entry
    <3>2. page \in Seq(Selected(catalogue, request))
      BY <1>3
    <3> HIDE DEF Entry
    <3>3. QED BY <3>1, <3>2, KeyedEntries
  <2>5. request.detailed => shown \o Keyed(page) \in Seq({Entry(t) : t \in got})
    BY <2>3, <2>4, ConcatProperties
  <2>6. shown' \in Seq({Entry(t) : t \in got})
    BY <1>3, <2>3, <2>5
  <2>7. QED BY <2>1, <2>6
<1>13. QED BY <1>2, <1>8, <1>10, <1>11, <1>12

(* Every step that changes nothing in the catalogue keeps the objects in   *)
(* their places.                                                           *)
LEMMA StableStep ==
  ASSUME PagingInv, StableInv, [Next]_vars PROVE StableInv'
<1>1. TypeOK /\ Closed /\ Untouched /\ request \in Requests /\ catalogue \subseteq Objects
  BY DEF PagingInv, TypeOK
<1>2. ASSUME NEW c \in {None} \cup Starts, Begin(c) PROVE StableInv'
  <2>1. pc' = "paging" /\ fetched' = << >> /\ shown' = << >>
    BY <1>1, <1>2 DEF Begin, Untouched
  <2>2. \A F : shown' \in Seq(F)
    BY <2>1
  <2>3. \A i \in 1..Len(fetched') : FALSE
    BY <2>1
  <2>4. QED BY <2>1, <2>2, <2>3 DEF StableInv
<1>3. CASE ListEntries
  BY <1>3, StableCall
<1>4. ASSUME NEW o \in Roots, Create(o) PROVE StableInv'
  <2>1. o \in added'
    BY <1>4 DEF Create
  <2>2. QED BY <2>1 DEF StableInv, Stable
<1>5. ASSUME NEW o \in Roots, Drop(o) PROVE StableInv'
  <2>1. o \in removed'
    BY <1>5 DEF Drop
  <2>2. QED BY <2>1 DEF StableInv, Stable
<1>6. CASE UNCHANGED vars
  <2>1. /\ request' = request /\ pc' = pc /\ first' = first /\ fetched' = fetched /\ catalogue' = catalogue
        /\ shown' = shown /\ removed' = removed /\ added' = added
    BY <1>6 DEF vars
  <2>2. Order' = Order /\ Listed' = Listed
    BY <2>1, SamePromise DEF Listed
  <2>3. \A o : Place(o)' = Place(o)
    BY <2>2 DEF Place, Rank, Below
  <2>4. {Entry(t) : t \in Got}' = {Entry(t) : t \in Got}
    BY <2>1 DEF Entry, PartsOf, Got
  <2> SUFFICES ASSUME Stable, pc # "idle"
               PROVE  /\ \A i \in 1..Len(fetched) : fetched[i] \in Listed' /\ Place(fetched[i])' = first + i - 1
                      /\ pc = "end" => Len(fetched) = IF first < Cardinality(Listed') THEN Cardinality(Listed') - first
                                                      ELSE 0
                      /\ request.tool = "listTables" => shown \in Seq({Entry(t) : t \in Got}')
    BY <2>1 DEF StableInv, Stable
  <2>5. /\ \A i \in 1..Len(fetched) : fetched[i] \in Listed /\ Place(fetched[i]) = first + i - 1
        /\ pc = "end" => Len(fetched) = IF first < Cardinality(Listed) THEN Cardinality(Listed) - first ELSE 0
        /\ request.tool = "listTables" => shown \in Seq({Entry(t) : t \in Got})
    BY DEF StableInv
  <2>6. \A i \in 1..Len(fetched) : fetched[i] \in Listed' /\ Place(fetched[i])' = first + i - 1
    BY <2>1, <2>2, <2>3, <2>5
  <2>7. QED BY <2>2, <2>4, <2>5, <2>6
<1>7. QED BY <1>2, <1>3, <1>4, <1>5, <1>6 DEF Next

(* Every tool of every server lists what it promises, from the offset on,  *)
(* in order, once, and all of it, and shows a table with its own parts, up *)
(* to the constraints that MySQL's joins confuse: whatever names the       *)
(* objects share where the server lets them, and whatever cursor the       *)
(* client began from.                                                      *)
THEOREM StablyListedOnce == Spec => []StableListedOnce
<1>1. Init => PagingInv /\ StableInv
  BY PagingInit DEF Init, StableInv
<1>2. PagingInv /\ StableInv /\ [Next]_vars => PagingInv' /\ StableInv'
  BY PagingStep, StableStep
<1>3. ASSUME PagingInv, StableInv PROVE StableListedOnce
  <2> DEFINE n == Cardinality(Listed)
             m == IF first < n THEN first ELSE n
  <2> SUFFICES ASSUME Stable
               PROVE  /\ Got \subseteq Listed
                      /\ \A i, j \in DOMAIN fetched : i < j => fetched[i] # fetched[j] /\ fetched[i].name <= fetched[j].name
                      /\ pc = "end" => /\ Cardinality(Listed \ Got) = m
                                       /\ \A o \in Listed \ Got, e \in Got : o.name <= e.name
                      /\ request.tool = "listTables" => \A i \in DOMAIN shown : \E t \in Got : ShownAs(shown[i], t)
    BY DEF StableListedOnce, Listed, Got
  <2>1. /\ TypeOK /\ request \in Requests /\ catalogue \subseteq Objects /\ fetched \in Seq(Objects) /\ first \in Nat
        /\ Untouched /\ Closed
    BY <1>3 DEF PagingInv, TypeOK
  <2>2. CASE pc = "idle"
    <3>1. fetched = << >> /\ shown = << >>
      BY <2>1, <2>2 DEF Untouched
    <3>2. DOMAIN fetched = {} /\ DOMAIN shown = {} /\ Got = {}
      BY <3>1 DEF Got
    <3>3. QED BY <2>2, <3>2
  <2>3. CASE pc # "idle"
    <3>1. /\ \A i \in 1..Len(fetched) : fetched[i] \in Listed /\ Place(fetched[i]) = first + i - 1
          /\ pc = "end" => Len(fetched) = IF first < n THEN n - first ELSE 0
          /\ request.tool = "listTables" => shown \in Seq({Entry(t) : t \in Got})
      BY <1>3, <2>3 DEF StableInv
    <3>2. DOMAIN fetched = 1..Len(fetched) /\ Len(fetched) \in Nat /\ n \in Nat
      BY <2>1, FewListed
    <3>3. Got \subseteq Listed
      BY <3>1, <3>2 DEF Got
    <3>4. /\ \A o \in Listed : Place(o) \in 0..(n - 1)
          /\ \A o, p \in Listed : Place(o) = Place(p) => o = p
          /\ \A o, p \in Listed : Place(o) < Place(p) => o.name <= p.name
      BY <2>1, ListedPlaces
    <3>5. ASSUME NEW i \in DOMAIN fetched, NEW j \in DOMAIN fetched, i < j
          PROVE  fetched[i] # fetched[j] /\ fetched[i].name <= fetched[j].name
      <4>1. /\ fetched[i] \in Listed /\ Place(fetched[i]) = first + i - 1
            /\ fetched[j] \in Listed /\ Place(fetched[j]) = first + j - 1
        BY <3>1, <3>2
      <4>2. first + i - 1 < first + j - 1
        BY <2>1, <3>2, <3>5
      <4>3. Place(fetched[i]) < Place(fetched[j]) /\ Place(fetched[i]) # Place(fetched[j])
        BY <2>1, <3>2, <4>1, <4>2
      <4>4. QED BY <3>4, <4>1, <4>3
    <3>6. ASSUME pc = "end"
          PROVE  Cardinality(Listed \ Got) = m /\ \A o \in Listed \ Got, e \in Got : o.name <= e.name
      <4>1. \A o \in Got : first <= Place(o)
        <5>1. ASSUME NEW i \in DOMAIN fetched PROVE first <= Place(fetched[i])
          BY <2>1, <3>1, <3>2
        <5>2. QED BY <5>1 DEF Got
      <4>2. ASSUME NEW o \in Listed, first <= Place(o) PROVE o \in Got
        <5> DEFINE i == Place(o) - first + 1
        <5>1. Place(o) \in 0..(n - 1)
          BY <3>4
        <5>2. i \in 1..Len(fetched) /\ first + i - 1 = Place(o)
          BY <2>1, <3>1, <3>2, <3>6, <4>2, <5>1
        <5> HIDE DEF i
        <5>3. fetched[i] = o
          BY <3>1, <3>4, <5>2
        <5>4. QED BY <3>2, <5>2, <5>3 DEF Got
      <4>3. m \in 0..n /\ \A o \in Listed : Place(o) < m <=> ~(first <= Place(o))
        BY <2>1, <3>2, <3>4
      <4>4. Listed \ Got = {o \in Listed : Place(o) < m}
        BY <4>1, <4>2, <4>3
      <4>5. Cardinality(Listed \ Got) = m
        <5> HIDE DEF m
        <5>1. QED BY <2>1, <4>3, <4>4, ListedPlaces
      <4>6. ASSUME NEW o \in Listed \ Got, NEW e \in Got PROVE o.name <= e.name
        <5>1. o \in Listed /\ e \in Listed /\ first <= Place(e) /\ ~(first <= Place(o))
          BY <3>3, <4>1, <4>2
        <5>2. Place(o) < Place(e)
          BY <2>1, <3>2, <3>4, <5>1
        <5>3. QED BY <3>4, <5>1, <5>2
      <4>7. QED BY <4>5, <4>6
    <3>7. ASSUME request.tool = "listTables", NEW i \in DOMAIN shown PROVE \E t \in Got : ShownAs(shown[i], t)
      <4>1. shown \in Seq({Entry(t) : t \in Got})
        BY <3>1, <3>7
      <4> HIDE DEF Entry
      <4>2. shown[i] \in {Entry(t) : t \in Got}
        BY <4>1
      <4>3. PICK t \in Got : shown[i] = Entry(t)
        BY <4>2
      <4>4. ShownAs(Entry(t), t)
        BY <2>1, <3>3, <3>7, EntryShown
      <4>5. QED BY <4>3, <4>4
    <3>8. QED BY <3>3, <3>5, <3>6, <3>7
  <2>4. QED BY <2>2, <2>3
<1>4. QED BY <1>1, <1>2, <1>3, PTL DEF Spec
=============================================================================
