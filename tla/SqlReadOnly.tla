----------------------------- MODULE SqlReadOnly -----------------------------
(***************************************************************************)
(* What read-only validation accepts (crates/sql/src/validation.rs), over  *)
(* abstract statements, and what a statement does when a server executes   *)
(* it, against which the validation is judged.                             *)
(*                                                                         *)
(* A statement is a node [kind, has, sub]: its kind, what stands in it     *)
(* directly, and the statements nested in it. A query nests queries and    *)
(* the data-modifying statements of its common table expressions; EXPLAIN  *)
(* nests what it explains.                                                 *)
(***************************************************************************)
EXTENDS Naturals, FiniteSets, Sequences

CONSTANT Depth   \* how deep statements nest

ASSUME DepthAssumption == Depth \in Nat

Node(kind, has, sub) == [kind |-> kind, has |-> has, sub |-> sub]

(* "call" and "from": a call of a blocked function in an expression or in  *)
(* FROM; "user": of a function no list knows, that writes; "setting": of   *)
(* set_config, or a user variable assigned, which changes the session.     *)
Features == {"into", "call", "from", "load_file", "user", "setting"}

(* "begin": BEGIN, START TRANSACTION, SET autocommit = 0; "end": COMMIT,   *)
(* ROLLBACK; "set": SET, PRAGMA and what else stays with the session.      *)
Leaves == {Node(k, {}, {}) : k \in {"query", "write", "show", "use", "begin", "end", "set"}}

QueriesOver(S) ==
  {Node("query", has, sub) :
     has \in {{}} \cup {{f} : f \in Features},
     sub \in {{}} \cup {{s} : s \in {t \in S : t.kind \in {"query", "write"}}}}
ExplainsOver(S) == {Node("explain", {}, {s}) : s \in S} \cup {Node("explain", {"analyze"}, {s}) : s \in S}

Grown(S) == S \cup QueriesOver(S) \cup ExplainsOver(S)

(* One level more than what is validated: a tool may wrap a statement.     *)
Tree[d \in 0..(Depth + 1)] == IF d = 0 THEN Leaves ELSE Grown(Tree[d - 1])
Statement == Tree[Depth]
Sent == Tree[Depth + 1]

-----------------------------------------------------------------------------
(* The two visitors. A visit meets the statement and all nested in it.     *)
Visited[s \in Sent] == {s} \cup UNION {Visited[t] : t \in s.sub}

(* DataModifyingQueryChecker: a nested statement is a query, and no query  *)
(* has an INTO.                                                            *)
DataModifying(s) == \E n \in Visited[s] : n.kind # "query" \/ "into" \in n.has

(* As if it looked at expressions only, not at the functions in FROM.      *)
DangerousInExpressions(s) == \E n \in Visited[s] : n.has \cap {"call", "load_file"} # {}

(* DangerousFunctionChecker stops at the first listed function; which of   *)
(* two comes first does not matter here.                                   *)
Dangerous(s) == \E n \in Visited[s] : n.has \cap {"call", "from", "load_file"} # {}

(* classify: a StatementKind or a refusal, of an EXPLAIN those of what it  *)
(* explains.                                                               *)
Judged(s) ==
  CASE s.kind = "query" /\ DataModifying(s) -> "ReadOnlyViolation"
    [] s.kind = "query" /\ ~DataModifying(s) /\ Dangerous(s) -> "Blocked"
    [] s.kind = "query" /\ ~DataModifying(s) /\ ~Dangerous(s) -> "Select"
    [] s.kind \in {"show", "use"} -> "NonSelect"
    [] OTHER -> "ReadOnlyViolation"
Explained(inner) == IF inner \in {"Select", "NonSelect"} THEN "NonSelect" ELSE inner
Classify[s \in Sent] ==
  IF s.kind = "explain" THEN Explained(Classify[CHOOSE t \in s.sub : TRUE]) ELSE Judged(s)

Scripts == {<<Node("write", {}, {}), Node("query", {}, {})>>,
            <<Node("begin", {}, {}), Node("write", {}, {})>>,
            <<Node("write", {}, {}), Node("end", {}, {}), Node("query", {}, {})>>}

(* The text of a request: the statements it parses to, or none because it  *)
(* does not parse, and whether INTO OUTFILE or INTO DUMPFILE occurs in it. *)
Text == [parses : {TRUE}, outfile : {FALSE}, stmts : {<<s>> : s \in Statement}]
  \cup [parses : {TRUE}, outfile : {FALSE, TRUE}, stmts : {<<>>} \cup Scripts]
  \cup [parses : {TRUE, FALSE}, outfile : {TRUE}, stmts : {<<Node("query", {}, {})>>}]
  \cup [parses : {FALSE}, outfile : {FALSE}, stmts : {<<>>}]

(* parse_single: a refusal, "none" or "one". *)
ParseSingle(text) ==
  CASE ~text.parses -> "ParseError"
    [] text.parses /\ Len(text.stmts) > 1 -> "MultiStatement"
    [] text.parses /\ Len(text.stmts) = 1 -> "one"
    [] OTHER -> "none"

(* validate_read_only: the StatementKind of an accepted text, or a refusal. *)
ValidateReadOnly(text) ==
  IF text.outfile THEN "IntoOutfileBlocked"
  ELSE CASE ParseSingle(text) = "one" -> Classify[text.stmts[1]]
         [] ParseSingle(text) = "none" -> "ReadOnlyViolation"
         [] OTHER -> ParseSingle(text)

(* validate_single_statement. *)
ValidateSingleStatement(text) ==
  IF ParseSingle(text) = "none" THEN "ParseError" ELSE ParseSingle(text)

Accepted(answer) == answer \in {"Select", "NonSelect", "one"}

-----------------------------------------------------------------------------
(* What a server does when it executes a statement: a query does what      *)
(* stands in it and what is nested in it; EXPLAIN executes only with       *)
(* ANALYZE, and no SHOW, USE or SET and nothing of transactions, though    *)
(* planning can already run a user's function.                             *)
(* "data" can be rejected by a read-only transaction, "outside" cannot:    *)
(* locks, signals to other backends, files. The rest is the session's.     *)
Effect == {"data", "outside", "use", "setting", "begin", "end"}
Direct(s) ==
  (IF s.kind = "write" \/ s.has \cap {"into", "user"} # {} THEN {"data"} ELSE {})
    \cup (IF s.has \cap {"call", "from", "load_file"} # {} THEN {"outside"} ELSE {})
    \cup (IF s.kind = "set" \/ "setting" \in s.has THEN {"setting"} ELSE {})
    \cup ({s.kind} \cap {"use", "begin", "end"})

Effects[s \in Sent] ==
  LET nested == UNION {Effects[t] : t \in s.sub} IN
  IF s.kind # "explain" THEN Direct(s) \cup nested
  ELSE IF "analyze" \in s.has
    THEN IF \E t \in s.sub : t.kind \in {"query", "write", "explain"} THEN nested ELSE {}
  ELSE IF \E t \in s.sub : \E n \in Visited[t] : "user" \in n.has THEN {"data"} ELSE {}
=============================================================================
