---------------------------- MODULE MCSqlLineage -----------------------------
(* Queries up to four levels deep over the tables t and s.u, the CTEs c    *)
(* and d and the columns a and b.                                          *)
EXTENDS SqlLineage

NoExpr == [refs |-> {}, subqueries |-> {}]
Ref(qualifier, column) == [qualifier |-> qualifier, column |-> column]
Refs(refs) == [refs |-> refs, subqueries |-> {}]
Item(name, expr) == [kind |-> "expr", name |-> name, expr |-> expr]
Star(name) == [kind |-> "wildcard", name |-> name, expr |-> NoExpr]
Table(name, alias) == [kind |-> "table", name |-> name, alias |-> alias, columns |-> <<>>, using |-> {}]
Function(alias) == [Table(<<"f">>, alias) EXCEPT !.kind = "function"]
Derived(query, alias) ==
  [kind |-> "derived", name |-> <<"">>, alias |-> alias, query |-> query, columns |-> <<>>, using |-> {}]
Select(items, from) == [kind |-> "select", items |-> items, from |-> from]
Plain(body) == [with |-> <<>>, body |-> body]
Cte(name, query) == [name |-> name, columns |-> <<>>, query |-> query]

T == Table(<<"t">>, "")
U == Table(<<"s", "u">>, "")
C == Table(<<"c">>, "")
D == Table(<<"d">>, "")
Bare == Ref("", "a")

Literal == Item("b", NoExpr)
SmallItems(q) == {Item("a", Refs({Ref(q, "a")})), Item("b", Refs({Ref("", "A")})), Star(""), Star(q)}
Small ==
  {Plain(Select(<<i>>, <<T>>)) : i \in SmallItems("t")}
  \cup {Plain(Select(<<i>>, <<T, U>>)) : i \in SmallItems("u")}
  \cup {Plain(Select(<<Item("a", Refs({Ref("t", "a"), Ref("u", "b")})), Literal>>, <<T, U>>)),
        Plain([kind |-> "values", rows |-> <<<<NoExpr, NoExpr>>>>]),
        Plain([kind |-> "values", rows |-> <<<<NoExpr>>, <<Refs({Bare})>>>>])}
Items(q) == SmallItems(q) \cup {Item("c", Refs({Ref(q, "b"), Ref(q, "a")})), Item("a", Refs({Ref("", "b")}))}

Froms(x) == {<<x>>, <<x, T>>, <<T, x>>, <<x, Table(<<"t">>, "x2")>>}
Nested ==
  {Plain(Select(<<i>>, from)) : i \in Items("x"), from \in UNION {Froms(Derived(q, "x")) : q \in Small}}
  \cup {Plain([kind |-> "union", left |-> p.body, right |-> q.body]) : p, q \in Small}
  \cup {Plain([kind |-> "query", query |-> q]) : q \in Small}
  \cup {Plain(Select(<<Item("b", [refs |-> r, subqueries |-> {q}])>>, <<T>>)) :
          r \in {{}, {Bare}, {Ref("u", "a")}}, q \in Small}

(* c over a small query, d over c; both or one used, also from a derived   *)
(* table and from a scalar subquery.                                       *)
OverC == {Plain(Select(<<i>>, <<C>>)) : i \in Items("c")}
          \cup {Plain(Select(<<i>>, <<C, T>>)) : i \in SmallItems("c")}
          \cup {Plain(Select(<<i>>, <<C, D>>)) : i \in SmallItems("d")}
WithC(q, p) == [p EXCEPT !.with = <<Cte("c", q)>>]
WithCD(q, r, p) == [p EXCEPT !.with = <<Cte("c", q), Cte("d", r)>>]
Ctes ==
  {WithC(q, Plain(Select(<<i>>, <<C, Table(<<"s", "u">>, "x")>>))) : q \in Small, i \in SmallItems("x")}
  \cup {WithCD(q, r, p) : q \in Small, r \in {Plain(Select(<<i>>, <<C>>)) : i \in Items("c")}, p \in OverC}
  \cup {WithCD(q, Plain(Select(<<Star("")>>, <<T>>)),
               Plain(Select(<<Item("b", [refs |-> {}, subqueries |-> {p}])>>, <<D>>))) : q \in Small, p \in OverC}
  \cup {WithC(q, Plain(Select(<<i>>, <<Derived([p EXCEPT !.with = <<Cte("d", r)>>], "x")>>))) :
          i \in SmallItems("x"), q \in Small, r \in {Plain(Select(<<Star("c")>>, <<C>>)), Plain(Select(<<Literal>>, <<T>>))},
          p \in OverC}
  \cup {[with |-> <<Cte("c", Plain(Select(<<Star("")>>, <<C>>)))>>, body |-> Select(<<Star("")>>, <<C>>)]}

(* What the code binds otherwise than SQL, or not at all: columns that     *)
(* nobody knows, names that are there twice, merged columns, columns named *)
(* by an alias, references out of a subquery.                              *)
TableT == Plain([kind |-> "table"])
TwoAs == Plain(Select(<<Item("a", Refs({Ref("", "a")})), Item("a", Refs({Ref("", "b")}))>>, <<T>>))
XItems == {Item("a", Refs({Ref("x", "a")})), Item("b", Refs({Bare})), Star(""), Star("x")}
OddFroms(q) ==
  LET x == Derived(q, "x") IN
    {<<x, Function("y")>>, <<Function("x")>>, <<T, Function("y")>>, <<x, Derived(q, "X")>>,
     <<x, [Derived(TwoAs, "y") EXCEPT !.using = {"a"}]>>, <<x, [Derived(q, "y") EXCEPT !.using = {"b"}]>>,
     <<[x EXCEPT !.columns = <<"b", "a">>]>>, <<[Table(<<"t">>, "x") EXCEPT !.columns = <<"a">>]>>}
Within(q, inner) ==
  Plain(Select(<<Item("a", [refs |-> {}, subqueries |-> {inner}])>>, <<Derived(q, "x")>>))
Inner == {Plain(Select(<<Item("a", Refs({r}))>>, f)) :
            r \in {Ref("x", "a"), Bare, Ref("y", "a")},
            f \in {<<T>>, <<Table(<<"s", "u">>, "y")>>, <<Derived(TwoAs, "y")>>,
                   <<Derived(Plain(Select(<<Literal>>, <<T>>)), "y")>>}}
Odd ==
  {Plain(Select(<<i>>, from)) : i \in XItems, from \in UNION {OddFroms(q) : q \in Small \cup {TwoAs, TableT}}}
  \cup {Plain(Select(<<i>>, <<T, Table(<<"s", "t">>, "")>>)) : i \in SmallItems("t")}
  \cup {Plain([kind |-> "union", left |-> q.body, right |-> TableT.body]) : q \in Small} \cup {TableT}
  \cup {Within(q, inner) : q \in Small \cup {TwoAs}, inner \in Inner \cup {TableT}}

(* CTEs that hide a table or another CTE, that are used before they are    *)
(* defined, that share the last part of a table's name, with new columns;  *)
(* and queries nested as deep as they may be, or deeper.                   *)
StarFrom(name) == Plain(Select(<<Star("")>>, <<Table(name, "")>>))
AFrom(name) == Plain(Select(<<Item("a", Refs({Bare}))>>, <<Table(name, "")>>))
Hidden ==
  {WithC(q, r) : q \in Small, r \in {StarFrom(<<"s", "c">>), AFrom(<<"s", "c">>)}}
  \cup {WithCD(AFrom(<<"d">>), q, p) : q \in Small, p \in {StarFrom(<<"c">>), StarFrom(<<"d">>)}}
  \cup {WithCD(q, r, Plain(Select(<<Star("")>>, <<Derived(WithC(p, StarFrom(<<n>>)), "x")>>))) :
          q \in Small, p \in Small \cup {AFrom(<<"c">>)}, r \in {StarFrom(<<"c">>), AFrom(<<"t">>)}, n \in {"c", "d"}}
  \cup {Plain([kind |-> "query", query |-> Plain(Select(<<Star("x")>>, <<Derived(p, "x")>>))]) :
           p \in UNION {{WithC(q, StarFrom(<<"c">>)), WithCD(q, StarFrom(<<"c">>), StarFrom(<<"d">>))} : q \in Small}}
  \cup {[p EXCEPT !.with = <<Cte("t", q)>>] : q \in Small, p \in {StarFrom(<<"t">>)}}
  \cup {[p EXCEPT !.with = <<[Cte("c", q) EXCEPT !.columns = <<"b", "a">>]>>] : q \in Small, p \in OverC}

Read(q) == [kind |-> "query", query |-> q]
Assign(name, refs) == [name |-> name, expr |-> Refs(refs)]
Assignments ==
  {<<Assign(m, {r}), Assign(n, s)>> : m, n \in {"a", "A", "b"}, r \in {Ref("t", "b"), Ref("x", "a"), Bare},
                                       s \in {{}, {Ref("x", "a"), Ref("t", "a")}}}
WriteFroms == {<<T>>} \cup {<<T, Derived(q, "x")>> : q \in Small}
MCStatements ==
  {Read(q) : q \in Small \cup Nested \cup Ctes \cup Odd \cup Hidden}
  \cup {[kind |-> "insert", names |-> n, query |-> q] : n \in {<<>>, <<"a">>, <<"a", "b">>}, q \in Small}
  \cup {[kind |-> k, from |-> f, assignments |-> a] : k \in {"update", "merge"}, f \in WriteFroms, a \in Assignments}
  \cup {[kind |-> "delete", from |-> f] : f \in WriteFroms}
=============================================================================
