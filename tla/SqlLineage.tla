----------------------------- MODULE SqlLineage ------------------------------
(***************************************************************************)
(* Column lineage of a statement (crates/sql-lineage/src): which columns   *)
(* of which tables each output column comes from, without a catalogue.     *)
(*                                                                         *)
(* A statement is abstract syntax.  An expression is the set of its column *)
(* references and of its scalar subqueries.  A FROM list is flat: joins    *)
(* and nested joins add their relations in order; `using` has the columns  *)
(* that a USING merges.  `columns` has the new names of an alias like      *)
(* x(a, b).  A table name is a sequence of identifiers; "" is a name,      *)
(* qualifier or alias left out.  A body of the kind "table" is TABLE t.    *)
(* Which of several errors comes first is not modelled.                    *)
(***************************************************************************)
EXTENDS Naturals, Sequences, FiniteSets, SequencesExt

CONSTANTS Statements,  \* the statements to analyse
          MaxDepth     \* MAX_DEPTH

VARIABLES statement, result

(* Identifiers compare without case. *)
Fold(name) == CASE name = "A" -> "a" [] OTHER -> name

Success(value) == [ok |-> TRUE, value |-> value]
Failure(error) == [ok |-> FALSE, error |-> error]
(* `?`: go on with the value, or end with the error. *)
Then(outcome, Continue(_)) == IF outcome.ok THEN Continue(outcome.value) ELSE outcome

AllOf(outcomes) == IF \A x \in outcomes : x.ok THEN Success(UNION {x.value : x \in outcomes})
                   ELSE CHOOSE x \in outcomes : ~x.ok

Column(name, sources) == [name |-> name, sources |-> sources]
Source(table, column) == <<table, Fold(column)>>
AllSources(columns) == Success(UNION {columns[i].sources : i \in DOMAIN columns})

-----------------------------------------------------------------------------
(* scope.rs                                                                *)

Physical(visible, table) == [visible |-> visible, physical |-> TRUE, table |-> table, columns |-> <<>>]
Virtual(visible, columns) == [visible |-> visible, physical |-> FALSE, table |-> <<>>, columns |-> columns]

ColumnsNamed(columns, name) == {i \in DOMAIN columns : Fold(columns[i].name) = Fold(name)}
RelationsNamed(scope, name) == {i \in DOMAIN scope : Fold(scope[i].visible) = Fold(name)}
First(indices) == CHOOSE i \in indices : \A j \in indices : i <= j

InRelation(relation, column) ==
  LET hits == ColumnsNamed(relation.columns, column) IN
    IF relation.physical THEN Success({Source(relation.table, column)})
    ELSE IF hits # {} THEN Success(relation.columns[First(hits)].sources)
    ELSE Failure("unresolved")

(* A bare column among several relations: a base table may have any column, *)
(* so one among them fails the resolution.                                 *)
ResolveBare(scope, column) ==
  LET hits == {i \in DOMAIN scope : InRelation(scope[i], column).ok} IN
    IF Len(scope) = 1 THEN InRelation(scope[1], column)
    ELSE IF (\E i \in DOMAIN scope : scope[i].physical) \/ Cardinality(hits) # 1
      THEN Failure("unresolved")
    ELSE InRelation(scope[First(hits)], column)

ResolveColumn(scope, ref) ==
  LET named == RelationsNamed(scope, ref.qualifier) IN
    IF ref.qualifier = "" THEN ResolveBare(scope, ref.column)
    ELSE IF named = {} THEN Failure("unresolved")
    ELSE InRelation(scope[First(named)], ref.column)

(* `*` or `name.*`: the columns of a base table are not known. *)
Expand(relations) ==
  IF \E i \in DOMAIN relations : relations[i].physical THEN Failure("unresolved")
  ELSE Success(FlattenSeq([i \in DOMAIN relations |-> relations[i].columns]))

ExpandNamed(scope, name) ==
  LET named == RelationsNamed(scope, name) IN
    IF named = {} THEN Failure("unresolved") ELSE Expand(<<scope[First(named)]>>)

-----------------------------------------------------------------------------
(* resolve.rs                                                              *)

(* A sequence of outcomes becomes the outcome of a sequence. *)
Joined(outcomes) ==
  IF \A i \in DOMAIN outcomes : outcomes[i].ok
    THEN Success(FlattenSeq([i \in DOMAIN outcomes |-> outcomes[i].value]))
    ELSE outcomes[CHOOSE i \in DOMAIN outcomes : ~outcomes[i].ok]

CteNamed(with, name) == with[Max({i \in DOMAIN with : Fold(with[i].name) = name})]


(* Every CTE of a WITH joins those of the queries around it, by name. *)
VisibleCtes(with, parent) ==
  LET own == {Fold(with[i].name) : i \in DOMAIN with} IN
    [n \in own \cup DOMAIN parent |-> IF n \in own THEN CteNamed(with, n).query ELSE parent[n]]

(* The left arm names the columns; the right one adds its sources. *)
Union(left, right) ==
  [i \in DOMAIN left |->
     Column(left[i].name,
            left[i].sources \cup IF i \in DOMAIN right THEN right[i].sources ELSE {})]

RECURSIVE ResolveQuery(_, _, _, _), ResolveBody(_, _, _, _)

(* collect_sources: a scalar subquery is resolved as a whole, in a scope   *)
(* of its own.                                                             *)
CollectSources(expr, scope, ctes, active, depth) ==
  AllOf({ResolveColumn(scope, ref) : ref \in expr.refs}
        \cup {Then(ResolveQuery(query, ctes, active, depth + 1), AllSources) : query \in expr.subqueries})

(* add_table_factor: the relations a factor adds, at most one; a table     *)
(* function like UNNEST adds none.                                         *)
Relations(factor, ctes, active, depth) ==
  LET name == Fold(Last(factor.name))
      visible == IF factor.alias = "" THEN Last(factor.name) ELSE factor.alias
      from(query, names) == Then(ResolveQuery(query, ctes, names, depth + 1),
                                 LAMBDA columns : Success(<<Virtual(visible, columns)>>)) IN
    CASE factor.kind = "table" /\ name \in active -> Failure("circular")
      [] factor.kind = "table" /\ name \in DOMAIN ctes \ active -> from(ctes[name], active \cup {name})
      [] factor.kind = "table" /\ name \notin DOMAIN ctes -> Success(<<Physical(visible, factor.name)>>)
      [] factor.kind = "derived" -> from(factor.query, active)
      [] factor.kind = "function" -> Success(<<>>)

Scope(from, ctes, active, depth) ==
  Joined([i \in DOMAIN from |-> Relations(from[i], ctes, active, depth)])

(* One item of a projection. *)
Project(item, scope, ctes, active, depth) ==
  CASE item.kind = "wildcard" /\ item.name = "" -> Expand(scope)
    [] item.kind = "wildcard" /\ item.name # "" -> ExpandNamed(scope, item.name)
    [] item.kind = "expr" -> Then(CollectSources(item.expr, scope, ctes, active, depth),
                                  LAMBDA sources : Success(<<Column(item.name, sources)>>))

ResolveSelect(select, ctes, active, depth) ==
  Then(Scope(select.from, ctes, active, depth),
       LAMBDA scope : Joined([i \in DOMAIN select.items |->
                                Project(select.items[i], scope, ctes, active, depth)]))

(* Literals have no sources, a column reference has no relation to be in;  *)
(* the rows of a VALUES are equally long.                                  *)
ResolveValues(rows, ctes, active, depth) ==
  Joined([i \in DOMAIN rows[1] |->
            Then(AllOf({CollectSources(rows[r][i], <<>>, ctes, active, depth) : r \in DOMAIN rows}),
                 LAMBDA sources : Success(<<Column("", sources)>>))])

ResolveBody(body, ctes, active, depth) ==
  CASE body.kind = "select" -> ResolveSelect(body, ctes, active, depth)
    [] body.kind = "values" -> ResolveValues(body.rows, ctes, active, depth)
    [] body.kind = "query" -> ResolveQuery(body.query, ctes, active, depth + 1)
    [] body.kind = "table" -> Success(<<>>)
    [] body.kind = "union" ->
         Then(ResolveBody(body.left, ctes, active, depth),
              LAMBDA left : Then(ResolveBody(body.right, ctes, active, depth),
                                 LAMBDA right : Success(Union(left, right))))

ResolveQuery(query, parent, active, depth) ==
  IF depth > MaxDepth THEN Failure("depth")
  ELSE ResolveBody(query.body, VisibleCtes(query.with, parent), active, depth)

NoCtes == [n \in {} |-> n]
Resolve(query) == ResolveQuery(query, NoCtes, {}, 0)

-----------------------------------------------------------------------------
(* statement.rs, extract.rs                                                *)

FromScope(from) == Scope(from, NoCtes, {}, 0)

(* A column list of a write names the columns by position. *)
MapColumns(names, columns) ==
  IF names = <<>> THEN Success(columns)
  ELSE IF Len(names) # Len(columns) THEN Failure("count")
  ELSE Success([i \in DOMAIN names |-> Column(names[i], columns[i].sources)])

Assigned(assignments, scope) ==
  Joined([i \in DOMAIN assignments |->
            Then(CollectSources(assignments[i].expr, scope, NoCtes, {}, 0),
                 LAMBDA sources : Success(<<Column(assignments[i].name, sources)>>))])

(* union_column: the clauses of a MERGE add up, column by column. *)
UnionColumn(columns, column) ==
  LET known == ColumnsNamed(columns, column.name) IN
    IF known = {} THEN Append(columns, column)
    ELSE [columns EXCEPT ![First(known)].sources = @ \cup column.sources]

Merged(columns) == FoldLeft(UnionColumn, <<>>, columns)

TablesOf(columns) == {source[1] : source \in UNION {columns[i].sources : i \in DOMAIN columns}}
BaseTables(scope) == {scope[i].table : i \in {j \in DOMAIN scope : scope[j].physical}}

(* One result for each kind of statement. *)
ExtractQuery(s) == Resolve(s.query)
ExtractInsert(s) == Then(Resolve(s.query), LAMBDA columns : MapColumns(s.names, columns))
ExtractUpdate(s) == Then(FromScope(s.from), LAMBDA scope : Assigned(s.assignments, scope))
ExtractMerge(s) == Then(ExtractUpdate(s), LAMBDA columns : Success(Merged(columns)))

(* The tables of a result are those of the sources; a DELETE has the base  *)
(* tables of its USING list instead.                                       *)
Lineage(columns) == Success([columns |-> columns, tables |-> TablesOf(columns)])
Deletion(scope) == Success([columns |-> <<>>, tables |-> BaseTables(scope)])

Init == statement \in Statements /\ result = <<>>
Analyse(kind, outcome) ==
  statement.kind = kind /\ result = <<>> /\ result' = <<outcome>> /\ UNCHANGED statement
Query == Analyse("query", Then(ExtractQuery(statement), Lineage))
Insert == Analyse("insert", Then(ExtractInsert(statement), Lineage))
Update == Analyse("update", Then(ExtractUpdate(statement), Lineage))
Merge == Analyse("merge", Then(ExtractMerge(statement), Lineage))
Delete == Analyse("delete", Then(FromScope(statement.from), Deletion))
Done == result # <<>> /\ UNCHANGED <<statement, result>>
Next == Query \/ Insert \/ Update \/ Merge \/ Delete \/ Done
Spec == Init /\ [][Next]_<<statement, result>>

-----------------------------------------------------------------------------
(* The reference: names bind as SQL binds them.  A CTE is resolved once,   *)
(* where it is defined, with the CTEs before it; a qualified name is never *)
(* a CTE; a name means the innermost query that has it.  A bare column     *)
(* among several relations binds to nothing if the columns of one are not  *)
(* known.  `at` has what is known where a query stands: `env`, the columns *)
(* of the CTEs, and `outer`, the scopes around a subquery, if it `reaches` *)
(* them.                                                                   *)
(*                                                                         *)
(* Three failures are beyond the code: "refused", where no server takes    *)
(* the statement (two relations of one name in a FROM, a name that is two  *)
(* columns of its relation, arms that are not equally long); "unknown",    *)
(* the columns of a table function or of TABLE t; "merged", those of a     *)
(* USING.                                                                  *)
Unseen == {"refused", "unknown", "merged"}

SqlRelation(factor, columns, open) ==
  [visible |-> IF factor.alias = "" THEN Last(factor.name) ELSE factor.alias,
   table |-> factor.name, columns |-> columns, open |-> open, using |-> factor.using,
   unknown |-> factor.kind = "function" \/ (open /\ factor.columns # <<>>)]

RECURSIVE SqlColumn(_, _)
SqlColumn(scopes, ref) ==
  IF scopes = <<>> THEN Failure("unresolved")
  ELSE LET scope == Head(scopes)
           bare == ref.qualifier = ""
           meant == IF bare THEN DOMAIN scope ELSE RelationsNamed(scope, ref.qualifier)
           places == UNION {IF scope[i].open THEN {<<i, 0>>}
                            ELSE {<<i, j>> : j \in ColumnsNamed(scope[i].columns, ref.column)} : i \in meant}
           place == CHOOSE p \in places : TRUE
           relation == scope[place[1]]
       IN IF places = {} THEN IF bare \/ meant = {} THEN SqlColumn(Tail(scopes), ref) ELSE Failure("unresolved")
          ELSE IF \E i \in meant : scope[i].unknown THEN Failure("unknown")
          ELSE IF bare /\ \E i \in meant : Fold(ref.column) \in scope[i].using THEN Failure("merged")
          ELSE IF Cardinality(meant) > 1 /\ (\E i \in meant : scope[i].open \/ \E p \in places : p[1] # place[1])
            THEN Failure("unresolved")
          ELSE IF Cardinality(places) > 1 THEN Failure("refused")
          ELSE IF relation.open THEN Success({Source(relation.table, ref.column)})
          ELSE Success(relation.columns[place[2]].sources)

Renamed(columns, names) ==
  [i \in DOMAIN columns |-> IF i \in DOMAIN names THEN Column(names[i], columns[i].sources) ELSE columns[i]]

RECURSIVE SqlQuery(_, _), SqlBody(_, _)

SqlSources(expr, scope, at) ==
  LET scopes == <<scope>> \o at.outer
      inside == [at EXCEPT !.outer = IF at.reaches THEN scopes ELSE <<>>] IN
    AllOf({SqlColumn(scopes, ref) : ref \in expr.refs}
          \cup {Then(SqlQuery(query, inside), AllSources) : query \in expr.subqueries})

SqlFactor(factor, at) ==
  LET of(outcome) == Then(outcome, LAMBDA columns :
                                     Success(<<SqlRelation(factor, Renamed(columns, factor.columns), FALSE)>>)) IN
    IF factor.kind = "derived" THEN of(SqlQuery(factor.query, at))
    ELSE IF factor.kind = "table" /\ Len(factor.name) = 1 /\ Fold(factor.name[1]) \in DOMAIN at.env
      THEN of(at.env[Fold(factor.name[1])])
    ELSE Success(<<SqlRelation(factor, <<>>, TRUE)>>)

SqlScope(from, at) ==
  Then(Joined([i \in DOMAIN from |-> SqlFactor(from[i], at)]),
       LAMBDA scope : IF \E i, j \in DOMAIN scope : i < j /\ scope[i].visible # ""
                                                     /\ Fold(scope[i].visible) = Fold(scope[j].visible)
                        THEN Failure("refused") ELSE Success(scope))

SqlItem(item, scope, at) ==
  LET named == SelectSeq(scope, LAMBDA r : item.name = "" \/ Fold(item.name) = Fold(r.visible)) IN
    IF item.kind = "expr" THEN Then(SqlSources(item.expr, scope, at),
                                    LAMBDA sources : Success(<<Column(item.name, sources)>>))
    ELSE IF \E i \in DOMAIN named : named[i].unknown THEN Failure("unknown")
    ELSE IF item.name = "" /\ \E i \in DOMAIN named : named[i].using # {} THEN Failure("merged")
    ELSE IF named = <<>> \/ \E i \in DOMAIN named : named[i].open THEN Failure("unresolved")
    ELSE Success(FlattenSeq([i \in DOMAIN named |-> named[i].columns]))

SqlUnion(left, right) == IF Len(left) = Len(right) THEN Success(Union(left, right)) ELSE Failure("refused")

SqlBody(body, at) ==
  CASE body.kind = "query" -> SqlQuery(body.query, at)
    [] body.kind = "table" -> Failure("unknown")
    [] body.kind = "values" ->
         Joined([i \in DOMAIN body.rows[1] |->
                   Then(AllOf({SqlSources(body.rows[r][i], <<>>, at) : r \in DOMAIN body.rows}),
                        LAMBDA sources : Success(<<Column("", sources)>>))])
    [] body.kind = "select" ->
         Then(SqlScope(body.from, at),
              LAMBDA scope : Joined([i \in DOMAIN body.items |-> SqlItem(body.items[i], scope, at)]))
    [] body.kind = "union" ->
         Then(SqlBody(body.left, at),
              LAMBDA left : Then(SqlBody(body.right, at), LAMBDA right : SqlUnion(left, right)))

SqlQuery(query, at) ==
  LET outcome(cte, env) == Then(SqlQuery(cte.query, [at EXCEPT !.env = env]),
                                LAMBDA columns : Success(Renamed(columns, cte.columns)))
      bind(env, cte) ==
        [n \in {Fold(cte.name)} \cup DOMAIN env |-> IF n = Fold(cte.name) THEN outcome(cte, env) ELSE env[n]] IN
    SqlBody(query.body, [at EXCEPT !.env = FoldLeft(bind, at.env, query.with)])

Sql(query, reaches) == SqlQuery(query, [env |-> NoCtes, outer |-> <<>>, reaches |-> reaches])

-----------------------------------------------------------------------------
(* What a statement has to be for the code to bind its names as SQL does:  *)
(* the code knows a CTE by the last part of a name alone, and wherever its *)
(* name is visible from, not where it is defined; it does not see the      *)
(* columns of an alias.                                                    *)
RECURSIVE Leaves(_), Mentions(_), CteNames(_), PlainlyNamed(_, _, _)

Leaves(body) == IF body.kind = "union" THEN Leaves(body.left) \cup Leaves(body.right) ELSE {body}
Factors(query) == UNION {Range(b.from) : b \in {c \in Leaves(query.body) : c.kind = "select"}}
Exprs(body) == CASE body.kind = "select" -> {body.items[i].expr : i \in DOMAIN body.items}
                 [] body.kind = "values" -> UNION {Range(row) : row \in Range(body.rows)}
                 [] OTHER -> {}
Inside(query) ==
  {f.query : f \in {g \in Factors(query) : g.kind = "derived"}}
  \cup {b.query : b \in {c \in Leaves(query.body) : c.kind = "query"}}
  \cup UNION {UNION {e.subqueries : e \in Exprs(b)} : b \in Leaves(query.body)}
WithIn(query) == {cte.query : cte \in Range(query.with)}

TableNames(query) == {f.name : f \in {g \in Factors(query) : g.kind = "table"}}
Mentions(query) ==
  {Fold(Last(n)) : n \in TableNames(query)} \cup UNION {Mentions(q) : q \in Inside(query) \cup WithIn(query)}
CteNames(query) ==
  {Fold(cte.name) : cte \in Range(query.with)} \cup UNION {CteNames(q) : q \in Inside(query) \cup WithIn(query)}

(* The queries of the CTEs around, and of those of a WITH on top of them. *)
Above(env, cte) == [n \in {Fold(cte.name)} \cup DOMAIN env |-> IF n = Fold(cte.name) THEN cte.query ELSE env[n]]

(* env: the queries of the CTEs that SQL sees.  A table with the name of a *)
(* CTE is that CTE, and no CTE hides one that is used where both are known.*)
PlainlyNamed(query, env, ctes) ==
  LET before(k) == FoldLeft(Above, env, SubSeq(query.with, 1, k - 1))
      known == FoldLeft(Above, env, query.with) IN
    /\ \A k \in DOMAIN query.with :
         LET cte == query.with[k] IN
           /\ cte.columns = <<>>
           /\ Fold(cte.name) \in DOMAIN before(k) =>
                \A q \in {cte.query} \cup Range(before(k)) : Fold(cte.name) \notin Mentions(q)
           /\ PlainlyNamed(cte.query, before(k), ctes)
    /\ \A n \in TableNames(query) : Fold(Last(n)) \in ctes => Len(n) = 1 /\ Fold(n[1]) \in DOMAIN known
    /\ \A f \in Factors(query) : f.columns = <<>>
    /\ \A q \in Inside(query) : PlainlyNamed(q, known, ctes)

=============================================================================
