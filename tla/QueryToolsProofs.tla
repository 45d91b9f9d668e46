--------------------------- MODULE QueryToolsProofs ---------------------------
(***************************************************************************)
(* Theorems about SqlReadOnly and QueryTools, for statements nested to any *)
(* depth and for any number of calls, connections and databases.  First    *)
(* what the validation accepts, by induction over nested statements, then  *)
(* the registered tools, then the calls.  The invariants the runs check    *)
(* are not inductive; IInv below is.                                       *)
(***************************************************************************)
EXTENDS QueryTools, WellFoundedInduction, TLAPS

-----------------------------------------------------------------------------
(* Induction over the naturals in a form that first-order provers can use: *)
(* with a set where the library's theorems have a predicate.               *)

(* Some well-founded relation on the naturals has every n < m in it. *)
LEMMA LessWellFounded ==
  \E R : IsWellFoundedOn(R, Nat) /\ \A m, n \in Nat : m < n => <<m, n>> \in R
<1>1. \A m, n \in Nat : m < n => <<m, n>> \in OpToRel(<, Nat)
  BY DEF OpToRel
<1>2. IsWellFoundedOn(OpToRel(<, Nat), Nat)
  BY NatLessThanWellFounded
<1>3. QED BY <1>1, <1>2, Zenon

(* A set of naturals that is not empty has a least element. *)
LEMMA LeastElement ==
  ASSUME NEW S, S \subseteq Nat, S # {}
  PROVE  \E m \in S : \A n \in S : m <= n
<1>1. PICK R : IsWellFoundedOn(R, Nat) /\ \A m, n \in Nat : m < n => <<m, n>> \in R
  BY LessWellFounded
<1>2. IsWellFoundedOn(R, Nat)
  BY <1>1
<1>3. \E m \in S : \A n \in S : ~ (<<n, m>> \in R)
  BY <1>2, WFMin, Zenon
<1>4. PICK m \in S : \A n \in S : ~ (<<n, m>> \in R)
  BY <1>3
<1>5. ASSUME NEW n \in S PROVE m <= n
  <2>1. m \in Nat /\ n \in Nat
    OBVIOUS
  <2>2. ~(n < m)
    BY <2>1, <1>1, <1>4, Zenon
  <2>3. QED BY <2>1, <2>2
<1>6. QED BY <1>5

(* A set that holds 0 and the successor of each of its naturals holds all. *)
LEMMA SetInduction ==
  ASSUME NEW S, 0 \in S, \A n \in Nat : n \in S => n + 1 \in S
  PROVE  Nat \subseteq S
<1> SUFFICES ASSUME Nat \ S # {} PROVE FALSE
  OBVIOUS
<1>1. PICK m \in Nat \ S : \A n \in Nat \ S : m <= n
  <2> DEFINE T == Nat \ S
  <2>1. T \subseteq Nat /\ T # {}
    OBVIOUS
  <2>2. QED BY <2>1, LeastElement
<1>2. m - 1 \in Nat /\ m - 1 + 1 = m
  OBVIOUS
<1>3. m - 1 \in S
  BY <1>1, <1>2
<1>4. QED BY <1>1, <1>2, <1>3

-----------------------------------------------------------------------------
(* The statements. *)

Depths == 0..(Depth + 1)

(* Nesting is a recursion over the depth that can be unfolded. *)
LEMMA TreeDef ==
  Tree = [d \in Depths |-> IF d = 0 THEN Leaves ELSE Grown(Tree[d - 1])]
<1> USE DepthAssumption
<1> DEFINE Defines(f, n) == f = [d \in 0..n |-> IF d = 0 THEN Leaves ELSE Grown(f[d - 1])]
           Defined == {n \in Nat : \E f : Defines(f, n)}
<1>1. 0 \in Defined
  <2> DEFINE f == [d \in 0..0 |-> Leaves]
  <2>1. Defines(f, 0)
    OBVIOUS
  <2>2. QED BY <2>1
<1>2. ASSUME NEW n \in Nat, n \in Defined PROVE n + 1 \in Defined
  <2>1. PICK f : Defines(f, n)
    BY <1>2
  <2> DEFINE g == [d \in 0..(n + 1) |-> IF d <= n THEN f[d] ELSE Grown(f[n])]
  <2>2. ASSUME NEW d \in 0..(n + 1) PROVE g[d] = IF d = 0 THEN Leaves ELSE Grown(g[d - 1])
    <3>1. CASE d = 0
      BY <2>1, <3>1
    <3>2. CASE d # 0 /\ d <= n
      <4>1. d \in 0..n /\ d - 1 \in 0..n /\ d - 1 \in 0..(n + 1)
        BY <3>2
      <4>2. f[d] = Grown(f[d - 1])
        BY <2>1, <3>2, <4>1
      <4>3. g[d] = f[d] /\ g[d - 1] = f[d - 1]
        BY <3>2, <4>1
      <4>4. QED BY <4>2, <4>3, <3>2
    <3>3. CASE d = n + 1
      <4>1. d - 1 = n /\ ~(d <= n) /\ d # 0 /\ n \in 0..(n + 1)
        BY <3>3
      <4>2. g[d] = Grown(f[n]) /\ g[n] = f[n]
        BY <4>1
      <4>3. QED BY <4>1, <4>2
    <3>4. QED BY <3>1, <3>2, <3>3
  <2>3. Defines(g, n + 1)
    BY <2>2
  <2> HIDE DEF g, Defines
  <2>4. QED BY <2>3
<1>3. Depth + 1 \in Defined
  <2> HIDE DEF Defined
  <2>1. QED BY <1>1, <1>2, SetInduction
<1>4. PICK f : Defines(f, Depth + 1)
  BY <1>3
<1>5. QED BY <1>4, Zenon DEF Tree, Depths

(* One level more is what is grown from the level below. *)
LEMMA TreeGrows ==
  /\ Tree[0] = Leaves
  /\ \A d \in 0..Depth : Tree[d + 1] = Grown(Tree[d])
BY TreeDef, DepthAssumption DEF Depths

(* A statement nests those of one level less; a leaf nests none. *)
LEMMA SubsBelow ==
  /\ \A s \in Leaves : s.sub = {}
  /\ \A S : \A s \in Grown(S) \ S : s.sub \subseteq S
BY DEF Leaves, Node, Grown, QueriesOver, ExplainsOver

(* What a statement of a depth nests is of that depth too. *)
LEMMA TreeClosed ==
  ASSUME NEW d \in Depths
  PROVE  \A s \in Tree[d] : s.sub \subseteq Tree[d]
<1> USE DepthAssumption
<1> DEFINE Closed == {n \in Nat : n \in Depths => \A s \in Tree[n] : s.sub \subseteq Tree[n]}
<1>1. 0 \in Closed
  BY TreeGrows, SubsBelow
<1>2. ASSUME NEW n \in Nat, n \in Closed PROVE n + 1 \in Closed
  <2> SUFFICES ASSUME n + 1 \in Depths, NEW s \in Tree[n + 1]
               PROVE  s.sub \subseteq Tree[n + 1]
    OBVIOUS
  <2>1. n \in 0..Depth /\ n \in Depths
    BY DEF Depths
  <2>2. Tree[n + 1] = Grown(Tree[n])
    BY <2>1, TreeGrows
  <2>3. \A t \in Tree[n] : t.sub \subseteq Tree[n]
    BY <1>2, <2>1
  <2>4. Tree[n] \subseteq Tree[n + 1]
    BY <2>2 DEF Grown
  <2>5. CASE s \in Tree[n]
    BY <2>3, <2>4, <2>5
  <2>6. CASE s \notin Tree[n]
    BY <2>2, <2>4, <2>6, SubsBelow
  <2>7. QED BY <2>5, <2>6
<1>3. d \in Closed
  <2> HIDE DEF Closed
  <2>1. d \in Nat
    BY DEF Depths
  <2>2. QED BY <2>1, <1>1, <1>2, SetInduction
<1>4. QED BY <1>3

(* Every level holds the leaves and lies in Sent. *)
LEMMA TreeInSent ==
  ASSUME NEW d \in Depths
  PROVE  Leaves \subseteq Tree[d] /\ Tree[d] \subseteq Sent
<1> USE DepthAssumption
<1>0. ASSUME NEW n \in 0..Depth PROVE Tree[n] \subseteq Tree[n + 1]
  BY TreeGrows DEF Grown
<1> DEFINE Has == {n \in Nat : n \in Depths => Leaves \subseteq Tree[n]}
           Within == {n \in Nat : n <= Depth + 1 => Tree[Depth + 1 - n] \subseteq Sent}
<1>1. 0 \in Has
  BY TreeGrows
<1>2. ASSUME NEW n \in Nat, n \in Has PROVE n + 1 \in Has
  BY <1>0, <1>2 DEF Depths
<1>3. 0 \in Within
  BY DEF Sent
<1>4. ASSUME NEW n \in Nat, n \in Within PROVE n + 1 \in Within
  <2> SUFFICES ASSUME n + 1 <= Depth + 1 PROVE Tree[Depth + 1 - (n + 1)] \subseteq Sent
    OBVIOUS
  <2>1. Depth - n \in 0..Depth /\ Depth + 1 - (n + 1) = Depth - n /\ Depth - n + 1 = Depth + 1 - n
    OBVIOUS
  <2>2. QED BY <1>0, <1>4, <2>1
<1>5. d \in Has
  <2> HIDE DEF Has
  <2>1. d \in Nat
    BY DEF Depths
  <2>2. QED BY <2>1, <1>1, <1>2, SetInduction
<1>6. Depth + 1 - d \in Within
  <2> HIDE DEF Within
  <2>1. Depth + 1 - d \in Nat
    BY DEF Depths
  <2>2. QED BY <2>1, <1>3, <1>4, SetInduction
<1>7. Depth + 1 - (Depth + 1 - d) = d /\ Depth + 1 - d <= Depth + 1
  BY DEF Depths
<1>8. QED BY <1>5, <1>6, <1>7

(* Every statement a client may write, and every one nested in a sent one, *)
(* is a statement that may be sent.                                        *)
LEMMA StatementsSent ==
  /\ Leaves \subseteq Statement /\ Statement \subseteq Sent /\ Leaves \subseteq Sent
  /\ \A s \in Sent : s.sub \subseteq Sent
BY TreeInSent, TreeClosed, DepthAssumption DEF Statement, Sent, Depths

(* EXPLAIN nests exactly one statement, nothing else nests more than       *)
(* queries and writes, and SHOW and USE are leaves.                        *)
LEMMA Shapes ==
  \A s \in Sent :
    /\ s.kind = "explain" => (\E t : s.sub = {t}) /\ s.has \subseteq {"analyze"}
    /\ s.kind # "explain" => \A t \in s.sub : t.kind \in {"query", "write"}
    /\ s.kind \in {"show", "use"} => s \in Leaves
<1> DEFINE Single(s) == /\ s.kind = "explain" => (\E t : s.sub = {t}) /\ s.has \subseteq {"analyze"}
                        /\ s.kind # "explain" => \A t \in s.sub : t.kind \in {"query", "write"}
                        /\ s.kind \in {"show", "use"} => s \in Leaves
           In == {n \in Nat : n \in Depths => \A s \in Tree[n] : Single(s)}
<1>1. ASSUME NEW S, NEW s \in Grown(S), s \notin S PROVE Single(s)
  <2>1. CASE s \in QueriesOver(S)
    <3>1. \E has, sub : /\ sub \in {{}} \cup {{t} : t \in {u \in S : u.kind \in {"query", "write"}}}
                        /\ s = Node("query", has, sub)
      BY <2>1 DEF QueriesOver
    <3>2. s.kind = "query" /\ \A t \in s.sub : t.kind \in {"query", "write"}
      BY <3>1 DEF Node
    <3>3. QED BY <3>2
  <2>2. CASE s \in ExplainsOver(S)
    <3>1. \E has, t : has \subseteq {"analyze"} /\ s = Node("explain", has, {t})
      BY <2>2 DEF ExplainsOver
    <3>2. s.kind = "explain" /\ (\E t : s.sub = {t}) /\ s.has \subseteq {"analyze"}
      BY <3>1 DEF Node
    <3>3. QED BY <3>2
  <2>3. QED BY <1>1, <2>1, <2>2 DEF Grown
<1>2. \A s \in Leaves : Single(s)
  BY DEF Leaves, Node
<1> HIDE DEF Single
<1>3. 0 \in In
  BY <1>2, TreeGrows
<1>4. ASSUME NEW n \in Nat, n \in In PROVE n + 1 \in In
  <2> SUFFICES ASSUME n + 1 \in Depths, NEW s \in Tree[n + 1] PROVE Single(s)
    OBVIOUS
  <2>1. n \in 0..Depth /\ n \in Depths
    BY DepthAssumption DEF Depths
  <2>2. Tree[n + 1] = Grown(Tree[n])
    BY <2>1, TreeGrows
  <2>3. CASE s \in Tree[n]
    BY <1>4, <2>1, <2>3
  <2>4. CASE s \notin Tree[n]
    BY <1>1, <2>2, <2>4
  <2>5. QED BY <2>3, <2>4
<1>5. Depth + 1 \in In
  <2> HIDE DEF In
  <2>1. QED BY <1>3, <1>4, SetInduction, DepthAssumption
<1>6. \A s \in Sent : Single(s)
  BY <1>5, DepthAssumption DEF Depths, Sent
<1>7. QED BY <1>6 DEF Single

(* An EXPLAIN nests a statement that may be sent. *)
LEMMA ExplainNests ==
  \A s \in Sent : s.kind = "explain" => \E t \in Sent : s.sub = {t}
BY Shapes, StatementsSent

(* Induction over statements: what holds of a statement when it holds of   *)
(* all nested in it holds of every one.                                    *)
LEMMA StatementInduction ==
  ASSUME NEW P, \A s \in Sent : s.sub \subseteq P => s \in P
  PROVE  Sent \subseteq P
<1> USE DepthAssumption
<1> DEFINE In == {n \in Nat : n \in Depths => Tree[n] \subseteq P}
<1>1. 0 \in In
  <2>1. Leaves \subseteq P
    BY SubsBelow, StatementsSent
  <2>2. QED BY <2>1, TreeGrows
<1>2. ASSUME NEW n \in Nat, n \in In PROVE n + 1 \in In
  <2> SUFFICES ASSUME n + 1 \in Depths, NEW s \in Tree[n + 1] PROVE s \in P
    OBVIOUS
  <2>1. n \in 0..Depth /\ n \in Depths
    BY DEF Depths
  <2>2. Tree[n + 1] = Grown(Tree[n]) /\ Tree[n] \subseteq P
    BY <2>1, <1>2, TreeGrows
  <2>3. s \in Sent
    BY TreeInSent
  <2>4. CASE s \in Tree[n]
    BY <2>2, <2>4
  <2>5. CASE s \notin Tree[n]
    <3>1. s.sub \subseteq P
      BY <2>2, <2>5, SubsBelow
    <3>2. QED BY <3>1, <2>3
  <2>6. QED BY <2>4, <2>5
<1>3. Depth + 1 \in In
  <2> HIDE DEF In
  <2>1. QED BY <1>1, <1>2, SetInduction
<1>4. QED BY <1>3 DEF Depths, Sent

-----------------------------------------------------------------------------
(* The recursive functions over statements can be unfolded. *)

(* The visitors of the validation see the statement and whatever those     *)
(* nested in it show them: the recursion can be unfolded.                  *)
LEMMA VisitedDef == \A s \in Sent : Visited[s] = {s} \cup UNION {Visited[t] : t \in s.sub}
<1> USE DepthAssumption
<1> DEFINE Body(f, s) == {s} \cup UNION {f[t] : t \in s.sub}
           Defines(f, S) == f = [s \in S |-> Body(f, s)]
           Defined == {n \in Nat : n \in Depths => \E f : Defines(f, Tree[n])}
<1>1. 0 \in Defined
  <2> DEFINE f == [s \in Tree[0] |-> {s}]
  <2>1. \A s \in Tree[0] : Body(f, s) = {s}
    BY TreeGrows, SubsBelow
  <2>2. Defines(f, Tree[0])
    BY <2>1
  <2> HIDE DEF f, Defines
  <2>3. QED BY <2>2
<1>2. ASSUME NEW n \in Nat, n \in Defined PROVE n + 1 \in Defined
  <2> SUFFICES ASSUME n + 1 \in Depths PROVE \E f : Defines(f, Tree[n + 1])
    OBVIOUS
  <2>1. n \in 0..Depth /\ n \in Depths
    BY DEF Depths
  <2>2. PICK f : Defines(f, Tree[n])
    BY <1>2, <2>1
  <2>3. Tree[n] \subseteq Tree[n + 1] /\ \A s \in Tree[n + 1] : s.sub \subseteq Tree[n]
    BY <2>1, TreeGrows, TreeClosed, SubsBelow DEF Grown
  <2> DEFINE g == [s \in Tree[n + 1] |-> Body(f, s)]
  <2>4. \A t \in Tree[n] : g[t] = f[t]
    BY <2>2, <2>3
  <2>5. ASSUME NEW s \in Tree[n + 1] PROVE Body(f, s) = Body(g, s)
    <3>1. \A t \in s.sub : f[t] = g[t]
      BY <2>3, <2>4
    <3> HIDE DEF g
    <3>2. QED BY <3>1
  <2>6. Defines(g, Tree[n + 1])
    BY <2>5
  <2> HIDE DEF g, Defines
  <2>7. QED BY <2>6
<1>3. Depth + 1 \in Defined
  <2> HIDE DEF Defined
  <2>1. QED BY <1>1, <1>2, SetInduction
<1>4. PICK f : Defines(f, Sent)
  <2> HIDE DEF Defines
  <2>1. QED BY <1>3 DEF Depths, Sent
<1>5. Defines(Visited, Sent)
  BY <1>4, Zenon DEF Visited
<1>6. QED BY <1>5

(* The verdict on a statement is a recursion that can be unfolded: an      *)
(* EXPLAIN is judged by what it explains.                                  *)
LEMMA ClassifyDef ==
  \A s \in Sent : Classify[s] =
    IF s.kind = "explain" THEN Explained(Classify[CHOOSE t \in s.sub : TRUE]) ELSE Judged(s)
<1> USE DepthAssumption
<1> DEFINE Inner(f, s) == f[CHOOSE t \in s.sub : TRUE]
           Body(f, s) == IF s.kind = "explain" THEN Explained(Inner(f, s)) ELSE Judged(s)
           Defines(f, S) == f = [s \in S |-> Body(f, s)]
           Defined == {n \in Nat : n \in Depths => \E f : Defines(f, Tree[n])}
<1>1. 0 \in Defined
  <2> DEFINE f == [s \in Tree[0] |-> Body(<<>>, s)]
  <2>1. \A s \in Tree[0] : s.kind # "explain"
    BY TreeGrows DEF Leaves, Node
  <2>2. \A s \in Tree[0] : Body(<<>>, s) = Body(f, s)
    <3> HIDE DEF f
    <3>1. QED BY <2>1
  <2>3. Defines(f, Tree[0])
    <3> HIDE DEF Body
    <3>1. QED BY <2>2
  <2> HIDE DEF f, Defines
  <2>4. QED BY <2>3
<1>2. ASSUME NEW n \in Nat, n \in Defined PROVE n + 1 \in Defined
  <2> SUFFICES ASSUME n + 1 \in Depths PROVE \E f : Defines(f, Tree[n + 1])
    OBVIOUS
  <2>1. n \in 0..Depth /\ n \in Depths
    BY DEF Depths
  <2>2. PICK f : Defines(f, Tree[n])
    BY <1>2, <2>1
  <2>3. Tree[n] \subseteq Tree[n + 1] /\ \A s \in Tree[n + 1] : s.sub \subseteq Tree[n]
    BY <2>1, TreeGrows, TreeClosed, SubsBelow DEF Grown
  <2> DEFINE g == [s \in Tree[n + 1] |-> Body(f, s)]
  <2>4. \A t \in Tree[n] : g[t] = f[t]
    <3> HIDE DEF Body
    <3>1. QED BY <2>2, <2>3
  <2>5. ASSUME NEW s \in Tree[n + 1] PROVE Body(f, s) = Body(g, s)
    <3>1. CASE s.kind = "explain"
      <4>1. s.sub # {}
        BY <2>1, <3>1, ExplainNests, TreeInSent
      <4>2. (CHOOSE t \in s.sub : TRUE) \in s.sub
        BY <4>1
      <4>3. Inner(f, s) = Inner(g, s)
        BY <4>2, <2>3, <2>4
      <4> HIDE DEF g, Inner
      <4>4. QED BY <4>3
    <3>2. CASE s.kind # "explain"
      <4> HIDE DEF g, Inner
      <4>1. QED BY <3>2
    <3>3. QED BY <3>1, <3>2
  <2>6. Defines(g, Tree[n + 1])
    <3> HIDE DEF Body
    <3>1. QED BY <2>5
  <2> HIDE DEF g, Defines
  <2>7. QED BY <2>6
<1>3. Depth + 1 \in Defined
  <2> HIDE DEF Defined
  <2>1. QED BY <1>1, <1>2, SetInduction
<1>4. PICK f : Defines(f, Sent)
  <2> HIDE DEF Defines
  <2>1. QED BY <1>3 DEF Depths, Sent
<1>5. Defines(Classify, Sent)
  BY <1>4, Zenon DEF Classify
<1>6. ASSUME NEW s \in Sent PROVE Classify[s] = Body(Classify, s)
  <2> HIDE DEF Body
  <2>1. QED BY <1>5
<1>7. QED BY <1>6

(* What a server does with a statement is a recursion that can be          *)
(* unfolded: a plain EXPLAIN runs nothing but what planning runs.          *)
LEMMA EffectsDef ==
  \A s \in Sent : Effects[s] =
    LET nested == UNION {Effects[t] : t \in s.sub} IN
    IF s.kind # "explain" THEN Direct(s) \cup nested
    ELSE IF "analyze" \in s.has
      THEN IF \E t \in s.sub : t.kind \in {"query", "write", "explain"} THEN nested ELSE {}
    ELSE IF \E t \in s.sub : \E n \in Visited[t] : "user" \in n.has THEN {"data"} ELSE {}
<1> USE DepthAssumption
<1> DEFINE Nested(f, s) == UNION {f[t] : t \in s.sub}
           Body(f, s) ==
             IF s.kind # "explain" THEN Direct(s) \cup Nested(f, s)
             ELSE IF "analyze" \in s.has
               THEN IF \E t \in s.sub : t.kind \in {"query", "write", "explain"} THEN Nested(f, s) ELSE {}
             ELSE IF \E t \in s.sub : \E n \in Visited[t] : "user" \in n.has THEN {"data"} ELSE {}
           Defines(f, S) == f = [s \in S |-> Body(f, s)]
           Defined == {n \in Nat : n \in Depths => \E f : Defines(f, Tree[n])}
<1>1. 0 \in Defined
  <2> DEFINE f == [s \in Tree[0] |-> Body(<<>>, s)]
  <2>1. \A s \in Tree[0] : Nested(<<>>, s) = Nested(f, s)
    BY TreeGrows, SubsBelow
  <2>2. \A s \in Tree[0] : Body(<<>>, s) = Body(f, s)
    <3> HIDE DEF f, Nested
    <3>1. QED BY <2>1
  <2>3. Defines(f, Tree[0])
    <3> HIDE DEF Body
    <3>1. QED BY <2>2
  <2> HIDE DEF f, Defines
  <2>4. QED BY <2>3
<1>2. ASSUME NEW n \in Nat, n \in Defined PROVE n + 1 \in Defined
  <2> SUFFICES ASSUME n + 1 \in Depths PROVE \E f : Defines(f, Tree[n + 1])
    OBVIOUS
  <2>1. n \in 0..Depth /\ n \in Depths
    BY DEF Depths
  <2>2. PICK f : Defines(f, Tree[n])
    BY <1>2, <2>1
  <2>3. Tree[n] \subseteq Tree[n + 1] /\ \A s \in Tree[n + 1] : s.sub \subseteq Tree[n]
    BY <2>1, TreeGrows, TreeClosed, SubsBelow DEF Grown
  <2> DEFINE g == [s \in Tree[n + 1] |-> Body(f, s)]
  <2>4. \A t \in Tree[n] : g[t] = f[t]
    <3> HIDE DEF Body
    <3>1. QED BY <2>2, <2>3
  <2>5. ASSUME NEW s \in Tree[n + 1] PROVE Body(f, s) = Body(g, s)
    <3>1. \A t \in s.sub : f[t] = g[t]
      BY <2>3, <2>4
    <3> HIDE DEF g
    <3>2. Nested(f, s) = Nested(g, s)
      BY <3>1
    <3> HIDE DEF Nested
    <3>3. QED BY <3>2
  <2>6. Defines(g, Tree[n + 1])
    <3> HIDE DEF Body
    <3>1. QED BY <2>5
  <2> HIDE DEF g, Defines
  <2>7. QED BY <2>6
<1>3. Depth + 1 \in Defined
  <2> HIDE DEF Defined
  <2>1. QED BY <1>1, <1>2, SetInduction
<1>4. PICK f : Defines(f, Sent)
  <2> HIDE DEF Defines
  <2>1. QED BY <1>3 DEF Depths, Sent
<1>5. Defines(Effects, Sent)
  BY <1>4, Zenon DEF Effects
<1>6. ASSUME NEW s \in Sent PROVE Effects[s] = Body(Effects, s)
  <2> HIDE DEF Body
  <2>1. QED BY <1>5
<1>7. QED BY <1>6

-----------------------------------------------------------------------------
(* What validation accepts is harmless, however deep it nests. *)

(* The visitors see the statement itself and all they see in a nested one. *)
LEMMA VisitedNested ==
  \A s \in Sent : s \in Visited[s] /\ \A t \in s.sub : Visited[t] \subseteq Visited[s]
BY VisitedDef

(* What a server does with a statement is a set of effects. *)
LEMMA EffectsType == \A s \in Sent : Effects[s] \subseteq Effect
<1> DEFINE P == {s \in Sent : Effects[s] \subseteq Effect}
<1>1. ASSUME NEW s \in Sent, s.sub \subseteq P PROVE s \in P
  <2>1. \A t \in s.sub : Effects[t] \subseteq Effect
    BY <1>1
  <2>2. UNION {Effects[t] : t \in s.sub} \subseteq Effect
    BY <2>1
  <2>3. Direct(s) \subseteq Effect
    BY DEF Direct, Effect
  <2>4. QED BY <2>2, <2>3, EffectsDef DEF Effect
<1>2. Sent \subseteq P
  <2> HIDE DEF P
  <2>1. QED BY <1>1, StatementInduction
<1>3. QED BY <1>2

(* A statement reaches outside the database, or changes data in it, only   *)
(* by something that the visit of the statement meets.                     *)
LEMMA EffectsHaveACause ==
  \A s \in Sent :
    /\ "outside" \in Effects[s] => Dangerous(s)
    /\ "data" \in Effects[s] =>
         \E n \in Visited[s] : n.kind = "write" \/ n.has \cap {"into", "user"} # {}
<1> DEFINE Out(s) == "outside" \in Effects[s] => Dangerous(s)
           Dat(s) == "data" \in Effects[s] =>
                       \E n \in Visited[s] : n.kind = "write" \/ n.has \cap {"into", "user"} # {}
           P == {s \in Sent : Out(s) /\ Dat(s)}
<1>1. ASSUME NEW s \in Sent, s.sub \subseteq P PROVE s \in P
  <2> DEFINE nested == UNION {Effects[t] : t \in s.sub}
  <2>1. s \in Visited[s] /\ \A t \in s.sub : Visited[t] \subseteq Visited[s]
    BY VisitedNested
  <2>2. "outside" \in Direct(s) => Dangerous(s)
    BY <2>1 DEF Direct, Dangerous
  <2>3. "data" \in Direct(s) => s.kind = "write" \/ s.has \cap {"into", "user"} # {}
    BY DEF Direct
  <2>4. \A t \in s.sub : Out(t) /\ Dat(t)
    BY <1>1
  <2>5. "outside" \in nested => Dangerous(s)
    <3>1. ASSUME NEW t \in s.sub, "outside" \in Effects[t] PROVE Dangerous(s)
      <4>1. Dangerous(t)
        BY <2>4, <3>1
      <4>2. QED BY <4>1, <2>1 DEF Dangerous
    <3>2. QED BY <3>1
  <2>6. "data" \in nested => \E n \in Visited[s] : n.kind = "write" \/ n.has \cap {"into", "user"} # {}
    <3>1. ASSUME NEW t \in s.sub, "data" \in Effects[t]
          PROVE  \E n \in Visited[s] : n.kind = "write" \/ n.has \cap {"into", "user"} # {}
      BY <2>1, <2>4, <3>1
    <3>2. QED BY <3>1
  <2>7. Effects[s] \subseteq Direct(s) \cup nested
        \/ (Effects[s] = {"data"} /\ \E t \in s.sub : \E n \in Visited[t] : "user" \in n.has)
    BY EffectsDef
  <2>8. Out(s)
    <3> HIDE DEF nested
    <3>1. QED BY <2>2, <2>5, <2>7
  <2>9. Dat(s)
    <3> HIDE DEF nested
    <3>1. QED BY <2>1, <2>3, <2>6, <2>7
  <2>10. QED BY <2>8, <2>9
<1>2. Sent \subseteq P
  <2> HIDE DEF P
  <2>1. QED BY <1>1, StatementInduction
<1>3. QED BY <1>2

(* A transaction is begun or ended only by a statement for it: nested in   *)
(* others it is not executed.                                              *)
LEMMA OnlyBeginBegins ==
  \A s \in Sent : Effects[s] \cap {"begin", "end"} # {} => s.kind \in {"begin", "end"}
<1> DEFINE P == {s \in Sent : Effects[s] \cap {"begin", "end"} # {} => s.kind \in {"begin", "end"}}
<1>1. ASSUME NEW s \in Sent, s.sub \subseteq P PROVE s \in P
  <2> DEFINE nested == UNION {Effects[t] : t \in s.sub}
  <2> SUFFICES ASSUME Effects[s] \cap {"begin", "end"} # {} PROVE s.kind \in {"begin", "end"}
    OBVIOUS
  <2>1. \A t \in s.sub : t.kind \in {"query", "write", "explain"} => Effects[t] \cap {"begin", "end"} = {}
    BY <1>1
  <2>2. CASE s.kind = "explain"
    <3>1. PICK t \in Sent : s.sub = {t}
      BY <2>2, ExplainNests
    <3>2. nested = Effects[t]
      BY <3>1
    <3>3. Effects[s] \subseteq {"data"} \/ (t.kind \in {"query", "write", "explain"} /\ Effects[s] = nested)
      BY <2>2, <3>1, EffectsDef
    <3>4. QED BY <2>1, <3>1, <3>2, <3>3
  <2>3. CASE s.kind # "explain"
    <3>1. nested \cap {"begin", "end"} = {}
      BY <2>1, <2>3, Shapes
    <3>2. Effects[s] = Direct(s) \cup nested
      BY <2>3, EffectsDef
    <3>3. QED BY <3>1, <3>2 DEF Direct
  <2>4. QED BY <2>2, <2>3
<1>2. Sent \subseteq P
  <2> HIDE DEF P
  <2>1. QED BY <1>1, StatementInduction
<1>3. QED BY <1>2

(* validate_read_only and classify: a statement that is accepted, however  *)
(* deep its EXPLAINs, queries and common table expressions nest, contains  *)
(* no write and no INTO, reaches nothing outside the database, and changes *)
(* data only through a function of a user's, which no list can know.       *)
THEOREM AcceptedStatementsRead ==
  \A s \in Sent : Classify[s] \in {"Select", "NonSelect"} =>
    /\ "outside" \notin Effects[s]
    /\ \A n \in Visited[s] : n.kind # "write" /\ "into" \notin n.has
    /\ "data" \in Effects[s] => \E n \in Visited[s] : "user" \in n.has
<1> DEFINE Clean(s) == \A n \in Visited[s] : n.kind # "write" /\ "into" \notin n.has
           Reads(s) == Classify[s] \in {"Select", "NonSelect"} => "outside" \notin Effects[s] /\ Clean(s)
           P == {s \in Sent : Reads(s)}
<1>1. ASSUME NEW s \in Sent, s.sub \subseteq P PROVE s \in P
  <2> SUFFICES ASSUME Classify[s] \in {"Select", "NonSelect"}
               PROVE  "outside" \notin Effects[s] /\ Clean(s)
    OBVIOUS
  <2>1. CASE s.kind = "query"
    <3>1. ~DataModifying(s) /\ ~Dangerous(s)
      BY <2>1, ClassifyDef DEF Judged
    <3>2. "outside" \notin Effects[s]
      BY <3>1, EffectsHaveACause
    <3>3. Clean(s)
      BY <3>1 DEF DataModifying
    <3>4. QED BY <3>2, <3>3
  <2>2. CASE s.kind = "explain"
    <3>1. PICK t \in Sent : s.sub = {t}
      BY <2>2, ExplainNests
    <3>2. (CHOOSE u \in s.sub : TRUE) = t
      BY <3>1
    <3>3. Classify[t] \in {"Select", "NonSelect"}
      BY <2>2, <3>2, ClassifyDef DEF Explained
    <3>4. "outside" \notin Effects[t] /\ Clean(t)
      BY <1>1, <3>1, <3>3
    <3>5. UNION {Effects[u] : u \in s.sub} = Effects[t]
      BY <3>1
    <3>6. "outside" \notin Effects[s]
      BY <2>2, <3>4, <3>5, EffectsDef
    <3>7. Visited[s] = {s} \cup Visited[t]
      BY <3>1, VisitedDef
    <3>8. "into" \notin s.has
      BY <2>2, Shapes
    <3>9. QED BY <2>2, <3>4, <3>6, <3>7, <3>8
  <2>3. CASE s.kind \in {"show", "use"}
    <3>1. s \in Leaves
      BY <2>3, Shapes
    <3>2. s.sub = {} /\ s.has = {}
      BY <3>1 DEF Leaves, Node
    <3>3. Visited[s] = {s}
      BY <3>2, VisitedDef
    <3>4. Effects[s] = Direct(s)
      BY <2>3, <3>2, EffectsDef
    <3>5. QED BY <2>3, <3>2, <3>3, <3>4 DEF Direct
  <2>4. CASE s.kind \notin {"query", "explain", "show", "use"}
    BY <2>4, ClassifyDef DEF Judged
  <2>5. QED BY <2>1, <2>2, <2>3, <2>4
<1>2. Sent \subseteq P
  <2> HIDE DEF P
  <2>1. QED BY <1>1, StatementInduction
<1>3. ASSUME NEW s \in Sent, Classify[s] \in {"Select", "NonSelect"}
      PROVE  /\ "outside" \notin Effects[s] /\ Clean(s)
             /\ "data" \in Effects[s] => \E n \in Visited[s] : "user" \in n.has
  <2>1. "outside" \notin Effects[s] /\ Clean(s)
    BY <1>2, <1>3
  <2>2. QED BY <2>1, EffectsHaveACause
<1>4. QED BY <1>3

(* classify answers with nothing else. *)
LEMMA ClassifyRange == \A s \in Sent : Classify[s] \in {"Select", "NonSelect", "Blocked", "ReadOnlyViolation"}
<1> DEFINE P == {s \in Sent : Classify[s] \in {"Select", "NonSelect", "Blocked", "ReadOnlyViolation"}}
<1>1. ASSUME NEW s \in Sent, s.sub \subseteq P PROVE s \in P
  <2>1. CASE s.kind = "explain"
    <3>1. PICK t \in Sent : s.sub = {t}
      BY <2>1, ExplainNests
    <3>2. (CHOOSE u \in s.sub : TRUE) = t /\ t \in P
      BY <1>1, <3>1
    <3>3. QED BY <2>1, <3>2, ClassifyDef DEF Explained
  <2>2. CASE s.kind # "explain"
    BY <2>2, ClassifyDef DEF Judged
  <2>3. QED BY <2>1, <2>2
<1>2. Sent \subseteq P
  <2> HIDE DEF P
  <2>1. QED BY <1>1, StatementInduction
<1>3. QED BY <1>2

-----------------------------------------------------------------------------
(* The tools that are registered. *)

(* No tool that writes is registered in read-only mode or is annotated as  *)
(* a read, and only explainQuery, outside SQLite, analyzes.                *)
LEMMA RouterFacts ==
  \A b \in {"mysql", "postgres", "sqlite"}, r \in BOOLEAN, p \in BOOLEAN : \A t \in Router(b, r, p) :
    /\ t.name \in {"writeQuery", "dropTable"} => ~r /\ ~t.hints.readOnly
    /\ "analyze" \in t.params => b # "sqlite" /\ t.name = "explainQuery"
<1> USE DEF PerDatabase, Crossing, OfFile, Tool, Hints, Lists, Queries, Creates, Drops, Writes, Filtered
<1> DEFINE Fine(t, b) ==
             /\ t.name \in {"writeQuery", "dropTable"} => ~t.hints.readOnly
             /\ "analyze" \in t.params => b # "sqlite" /\ t.name = "explainQuery"
           Reads(t) == t.name \notin {"writeQuery", "dropTable"}
<1>1. \A t \in MysqlTools.tools : Fine(t, "mysql") /\ Reads(t)
  BY DEF MysqlTools, MysqlListDatabases, MysqlListTables, MysqlListViews, MysqlListTriggers, MysqlListFunctions,
         MysqlListProcedures, MysqlReadQuery, MysqlExplainQuery
<1>2. \A t \in MysqlTools.gated : Fine(t, "mysql")
  BY DEF MysqlTools, MysqlCreateDatabase, MysqlDropDatabase, MysqlDropTable, MysqlWriteQuery
<1>3. \A t \in PgTools.tools : Fine(t, "postgres") /\ Reads(t)
  BY DEF PgTools, PgListDatabases, PgListTables, PgListViews, PgListTriggers, PgListFunctions, PgListProcedures,
         PgListMaterializedViews, PgReadQuery, PgExplainQuery
<1>4. \A t \in PgTools.gated : Fine(t, "postgres")
  BY DEF PgTools, PgCreateDatabase, PgDropDatabase, PgDropTable, PgWriteQuery
<1>5. \A t \in SqliteTools.tools : Fine(t, "sqlite") /\ Reads(t)
  BY DEF SqliteTools, SqliteListTables, SqliteListViews, SqliteListTriggers, SqliteReadQuery, SqliteExplainQuery
<1>6. \A t \in SqliteTools.gated : Fine(t, "sqlite")
  BY DEF SqliteTools, SqliteWriteQuery, SqliteDropTable
<1> HIDE DEF PerDatabase, Crossing, OfFile, Tool, Hints, Lists, Queries, Creates, Drops, Writes, Filtered
<1>7. QED BY <1>1, <1>2, <1>3, <1>4, <1>5, <1>6 DEF Router, FromSpecs

(* A configuration names a backend and two gates, and Registered holds the *)
(* tools its router has.                                                   *)
LEMMA ConfigFacts ==
  ASSUME config \in Configs
  PROVE  /\ config.backend \in {"mysql", "postgres", "sqlite"} /\ config.readOnly \in BOOLEAN
         /\ config.pinned \in BOOLEAN /\ config.default \in Dbs
         /\ Registered[config] = Router(config.backend, config.readOnly, config.pinned)
BY ConfigAssumption DEF Registered

(* What a call of a registered tool may be. *)
LEMMA CallFacts ==
  ASSUME config \in Configs, NEW call \in Callable
  PROVE  /\ call \in QueryCalls \cup {"analyzeQuery"}
         /\ ToolOf(call).name = IF call = "analyzeQuery" THEN "explainQuery" ELSE call
         /\ call \in {"writeQuery", "dropTable"} => ~config.readOnly /\ ~ToolOf(call).hints.readOnly
         /\ call = "analyzeQuery" => config.backend # "sqlite"
<1> DEFINE name == IF call = "analyzeQuery" THEN "explainQuery" ELSE call
<1>1. PICK t \in Registered[config] : /\ t.name = name
                                      /\ call = "analyzeQuery" => "analyze" \in t.params
                                      /\ call \in QueryCalls \cup {"analyzeQuery"}
  <2>1. CASE call \in {u.name : u \in Registered[config]} \cap QueryCalls
    BY <2>1 DEF QueryCalls
  <2>2. CASE call \in {"analyzeQuery" : u \in {v \in Registered[config] : "analyze" \in v.params}}
    <3>1. PICK u \in Registered[config] : "analyze" \in u.params
      BY <2>2
    <3>2. u.name = "explainQuery" /\ call = "analyzeQuery"
      BY <2>2, <3>1, RouterFacts, ConfigFacts
    <3>3. QED BY <3>1, <3>2
  <2>3. QED BY <2>1, <2>2 DEF Callable
<1>2. ToolOf(call) \in Registered[config] /\ ToolOf(call).name = name
  BY <1>1 DEF ToolOf
<1>3. \A u \in Registered[config] :
        /\ u.name \in {"writeQuery", "dropTable"} => ~config.readOnly /\ ~u.hints.readOnly
        /\ "analyze" \in u.params => config.backend # "sqlite"
  BY RouterFacts, ConfigFacts
<1>4. QED BY <1>1, <1>2, <1>3

(* Outside SQLite what must only read runs in a read-only transaction. *)
LEMMA PlanFacts ==
  ASSUME config \in Configs, NEW call \in Callable
  PROVE  LET plan == PlanOf(config.backend, call) IN
           /\ plan.readOnly \in BOOLEAN
           /\ config.backend # "sqlite" /\ (config.readOnly \/ call = "readQuery") => plan.readOnly
           /\ config.backend = "sqlite" => ~plan.readOnly
           /\ plan.readOnly => config.readOnly \/ call = "readQuery"
           /\ call = "readQuery" => plan.check = "readOnly" /\ plan.wrap = "none"
           /\ call = "explainQuery" => plan.wrap = "explain"
           /\ call = "analyzeQuery" => plan.wrap = "analyze" /\ (config.readOnly => plan.check = "readOnly")
           /\ config.readOnly => call \in {"readQuery", "explainQuery", "analyzeQuery"}
<1>1. config.backend \in {"mysql", "postgres", "sqlite"} /\ config.readOnly \in BOOLEAN
  BY ConfigFacts
<1>2. call \in {"readQuery", "explainQuery", "writeQuery", "dropTable", "analyzeQuery"}
  BY CallFacts DEF QueryCalls
<1>3. /\ call \in {"writeQuery", "dropTable"} => ~config.readOnly
      /\ call = "analyzeQuery" => config.backend # "sqlite"
  BY CallFacts
<1> USE DEF PlanOf, Plan, MysqlRead, MysqlWrite, MysqlDrop, MysqlExplain, PgRead, PgWrite, PgDrop, PgExplain,
            SqliteRead, SqliteWrite, SqliteDrop, SqliteExplain
<1>4. CASE config.backend = "mysql"
  BY <1>1, <1>2, <1>3, <1>4
<1>5. CASE config.backend = "postgres"
  BY <1>1, <1>2, <1>3, <1>5
<1>6. CASE config.backend = "sqlite"
  BY <1>1, <1>2, <1>3, <1>6
<1>7. QED BY <1>1, <1>4, <1>5, <1>6

-----------------------------------------------------------------------------
(* What the statements of a text do. *)

(* A text holds statements. *)
LEMMA TextStatements ==
  \A text \in Text : text.stmts \in Seq(Statement)
<1>1. \A s \in Statement : <<s>> \in Seq(Statement)
  OBVIOUS
<1>2. \A k \in {"write", "query", "begin", "end"} : Node(k, {}, {}) \in Statement
  BY StatementsSent DEF Leaves
<1>3. <<>> \in Seq(Statement) /\ Scripts \subseteq Seq(Statement)
  BY <1>2 DEF Scripts
<1>4. QED BY <1>1, <1>2, <1>3 DEF Text

(* An EXPLAIN of a statement does no more than the statement, or, when it  *)
(* only plans, what a function of a user's does.                           *)
LEMMA ExplainSent ==
  ASSUME NEW s \in Statement
  PROVE  /\ s \in Sent
         /\ \A has \in {{}, {"analyze"}} : Node("explain", has, {s}) \in Sent
         /\ Effects[Node("explain", {}, {s})] \subseteq {"data"}
         /\ Effects[Node("explain", {"analyze"}, {s})] \subseteq Effects[s]
<1>1. s \in Sent
  BY StatementsSent
<1>2. ASSUME NEW has \in {{}, {"analyze"}} PROVE Node("explain", has, {s}) \in Sent
  <2>1. Sent = Grown(Statement)
    BY TreeGrows, DepthAssumption DEF Sent, Statement
  <2>2. Node("explain", has, {s}) \in ExplainsOver(Statement)
    BY Zenon DEF ExplainsOver
  <2>3. QED BY <2>1, <2>2, Zenon DEF Grown
<1>3. Effects[Node("explain", {}, {s})] \subseteq {"data"}
  BY <1>2, EffectsDef DEF Node
<1>4. Effects[Node("explain", {"analyze"}, {s})] \subseteq Effects[s]
  <2> DEFINE e == Node("explain", {"analyze"}, {s})
  <2>1. e \in Sent /\ e.kind = "explain" /\ e.has = {"analyze"} /\ e.sub = {s}
    BY <1>2 DEF Node
  <2>2. UNION {Effects[t] : t \in e.sub} = Effects[s]
    BY <2>1
  <2>3. QED BY <2>1, <2>2, EffectsDef
<1>5. QED BY <1>1, <1>2, <1>3, <1>4

(* A statement as the client wrote it, and as its tool wraps it, is one    *)
(* that may be sent.                                                       *)
LEMMA WrappedSent ==
  ASSUME NEW plan, NEW s \in Statement
  PROVE  Wrapped(plan, s) \in Sent /\ s \in Sent
<1>1. Node("write", {}, {}) \in Sent
  BY StatementsSent DEF Leaves
<1>2. s \in Sent /\ \A has \in {{}, {"analyze"}} : Node("explain", has, {s}) \in Sent
  BY ExplainSent
<1>3. QED BY <1>1, <1>2 DEF Wrapped

(* What a statement does when its tool sends it is a set of effects. *)
LEMMA DoesType ==
  ASSUME NEW plan, NEW s \in Statement
  PROVE  Does(plan, s) \subseteq Effect
BY WrappedSent, EffectsType DEF Does

(* The validation and the wrapping of a call that must only read leave     *)
(* nothing it does outside the database, and in SQLite, which has no       *)
(* read-only transaction, nothing at all.                                  *)
LEMMA AcceptedDoes ==
  ASSUME config \in Configs, NEW call \in Callable, NEW text \in Text,
         Accepted(Validate(PlanOf(config.backend, call), text)),
         NEW i \in DOMAIN text.stmts
  PROVE  LET plan == PlanOf(config.backend, call)
             does == Does(plan, text.stmts[i])
         IN /\ config.readOnly \/ call = "readQuery" =>
                 "outside" \notin does /\ (~plan.readOnly => "data" \notin does)
            /\ "setting" \in does => \/ config.backend = "mysql"
                                    \/ plan.readOnly
                                    \/ (~config.readOnly /\ call \in {"writeQuery", "analyzeQuery"})
            /\ does \cap {"begin", "end"} # {} => call = "writeQuery" /\ ~config.readOnly
            /\ "use" \in does => config.backend = "mysql"
<1> DEFINE plan == PlanOf(config.backend, call)
           s == text.stmts[i]
           does == Does(plan, s)
<1>1. s \in Statement /\ text.stmts \in Seq(Statement)
  BY TextStatements
<1>2. config.backend \in {"mysql", "postgres", "sqlite"} /\ config.readOnly \in BOOLEAN
  BY ConfigFacts
<1>3. "use" \in does => config.backend = "mysql"
  BY <1>2 DEF Does
<1>5. config.readOnly /\ ~plan.readOnly => config.backend = "sqlite"
  BY PlanFacts
<1>6. plan.check = "readOnly" => Classify[s] \in {"Select", "NonSelect"}
  <2> SUFFICES ASSUME plan.check = "readOnly" PROVE Classify[s] \in {"Select", "NonSelect"}
    OBVIOUS
  <2>1. Accepted(ValidateReadOnly(text))
    BY DEF Validate
  <2>2. ParseSingle(text) = "one"
    BY <2>1 DEF ValidateReadOnly, Accepted, ParseSingle
  <2>3. Len(text.stmts) = 1
    BY <2>2 DEF ParseSingle
  <2>4. i = 1
    BY <1>1, <2>3
  <2>5. Accepted(Classify[s])
    BY <2>1, <2>2, <2>4 DEF ValidateReadOnly, Accepted
  <2>6. QED BY <2>5, <1>1, ClassifyRange, StatementsSent DEF Accepted
<1>7. ASSUME config.readOnly \/ call = "readQuery"
      PROVE  "outside" \notin does /\ (~plan.readOnly => "data" \notin does)
  <2>1. call \in {"readQuery", "explainQuery", "analyzeQuery"}
    BY <1>7, PlanFacts
  <2>2. does \subseteq Effects[Wrapped(plan, s)]
    BY DEF Does
  <2>3. CASE call = "readQuery"
    <3>1. plan.wrap = "none" /\ Classify[s] \in {"Select", "NonSelect"}
      BY <2>3, <1>6, PlanFacts
    <3>2. Wrapped(plan, s) = s
      BY <3>1 DEF Wrapped
    <3>3. "outside" \notin Effects[s] /\ \A n \in Visited[s] : n.kind # "write"
      BY <3>1, <1>1, AcceptedStatementsRead, StatementsSent
    <3>4. config.backend = "sqlite" => "data" \notin does
      BY <3>3 DEF Does
    <3>5. ~plan.readOnly => config.backend = "sqlite"
      BY <1>2, <2>3, PlanFacts
    <3>6. QED BY <2>2, <3>2, <3>3, <3>4, <3>5
  <2>4. CASE call = "explainQuery"
    <3>1. Wrapped(plan, s) = Node("explain", {}, {s})
      BY <2>4, PlanFacts DEF Wrapped
    <3> HIDE DEF s
    <3>2. Effects[Node("explain", {}, {s})] \subseteq {"data"}
      BY <1>1, ExplainSent
    <3>3. config.backend = "sqlite" => does = {}
      BY <3>1 DEF Does, Node
    <3>4. ~plan.readOnly => config.backend = "sqlite"
      BY <1>2, <1>7, PlanFacts
    <3>5. QED BY <2>2, <3>1, <3>2, <3>3, <3>4
  <2>5. CASE call = "analyzeQuery"
    <3>1. Wrapped(plan, s) = Node("explain", {"analyze"}, {s})
      BY <2>5, PlanFacts DEF Wrapped
    <3>2. config.readOnly /\ config.backend # "sqlite"
      BY <2>5, <1>7, CallFacts
    <3>3. plan.readOnly /\ Classify[s] \in {"Select", "NonSelect"}
      BY <1>6, <2>5, <3>2, PlanFacts
    <3>4. "outside" \notin Effects[s]
      BY <3>3, <1>1, AcceptedStatementsRead, StatementsSent
    <3>5. QED BY <2>2, <3>1, <3>3, <3>4, <1>1, ExplainSent
  <2>6. QED BY <2>1, <2>3, <2>4, <2>5
<1>8. call \in {"readQuery", "explainQuery", "writeQuery", "dropTable", "analyzeQuery"}
      /\ (call \in {"writeQuery", "dropTable"} => ~config.readOnly)
      /\ (call = "analyzeQuery" => config.backend # "sqlite")
  BY CallFacts DEF QueryCalls
<1>9. does \subseteq Effects[Wrapped(plan, s)]
  BY DEF Does
<1>10. /\ call = "dropTable" => Effects[Wrapped(plan, s)] = {"data"} /\ Wrapped(plan, s).kind = "write"
       /\ call = "explainQuery" => Effects[Wrapped(plan, s)] \subseteq {"data"}
  <2>1. call = "dropTable" => plan.wrap = "drop"
    BY <1>2 DEF PlanOf, Plan, MysqlDrop, PgDrop, SqliteDrop
  <2>2. Node("write", {}, {}) \in Sent
    BY StatementsSent DEF Leaves
  <2>3. Effects[Node("write", {}, {})] = {"data"}
    BY <2>2, EffectsDef DEF Node, Direct
  <2>4. call = "explainQuery" => Wrapped(plan, s) = Node("explain", {}, {s})
    BY PlanFacts DEF Wrapped
  <2> HIDE DEF plan, s
  <2>5. QED BY <1>1, <2>1, <2>3, <2>4, ExplainSent DEF Wrapped, Node
<1>11. call = "readQuery" => /\ Wrapped(plan, s) = s
                             /\ s.kind \notin {"begin", "end", "set"}
  <2>1. \A t \in Sent : Classify[t] \in {"Select", "NonSelect"} => t.kind \notin {"begin", "end", "set"}
    BY ClassifyDef DEF Judged
  <2>2. QED BY <1>1, <1>6, <2>1, PlanFacts, StatementsSent DEF Wrapped
<1>12. "setting" \in does => \/ config.backend = "mysql"
                             \/ plan.readOnly
                             \/ (~config.readOnly /\ call \in {"writeQuery", "analyzeQuery"})
  <2>1. "setting" \in does => call \in {"readQuery", "writeQuery", "analyzeQuery"}
    BY <1>8, <1>9, <1>10
  <2>2. call = "readQuery" /\ config.backend = "sqlite" => "setting" \notin does
    BY <1>11 DEF Does
  <2>3. call \in {"readQuery", "analyzeQuery"} => plan.readOnly \/ config.backend = "sqlite" \/ ~config.readOnly
    BY <1>2, <1>8, PlanFacts
  <2>4. call = "readQuery" => plan.readOnly \/ config.backend = "sqlite"
    BY <1>2, PlanFacts
  <2> HIDE DEF plan, does
  <2>5. QED BY <1>2, <1>8, <2>1, <2>2, <2>3, <2>4
<1>13. does \cap {"begin", "end"} # {} => call = "writeQuery" /\ ~config.readOnly
  <2>1. Wrapped(plan, s) \in Sent
    BY <1>1, WrappedSent
  <2>2. does \cap {"begin", "end"} # {} => Wrapped(plan, s).kind \in {"begin", "end"}
    BY <1>9, <2>1, OnlyBeginBegins
  <2>3. call \in {"explainQuery", "analyzeQuery"} => Wrapped(plan, s).kind = "explain"
    BY PlanFacts DEF Wrapped, Node
  <2> HIDE DEF plan, s, does
  <2>4. QED BY <1>8, <1>10, <1>11, <2>2, <2>3
<1>14. QED BY <1>3, <1>7, <1>12, <1>13

-----------------------------------------------------------------------------
(* The inductive invariant. *)

(* What all statements of a call do, and whether the call must only read.  *)
Everything(c) == Doing(c, Len(effects[c]))
ReadsOnly(c) == ReadOnlyTransaction(request[c].tool)
Protected(c) == config.readOnly \/ request[c].tool = "readQuery"

Did(c, e) == \E w \in done : w.call = c /\ w.effect = e
DidNothing(c) == \A w \in done : w.call # c

(* The calls that may leave a setting, or a transaction, on a connection. *)
MaySet(c) ==
  \/ config.backend = "mysql"
  \/ ~config.readOnly /\ request[c].tool \in {"writeQuery", "analyzeQuery"}
MayBegin(c) == ~config.readOnly /\ request[c].tool = "writeQuery"

(* A call, and what it has done so far. *)
CallOK(c) ==
  /\ pc[c] = "idle" => effects[c] = <<>>
  /\ pc[c] # "idle" => request[c].tool \in Callable
  /\ pc[c] # "done" => answer[c] = "none"
  /\ Protected(c) => "outside" \notin Everything(c) /\ (~ReadsOnly(c) => "data" \notin Everything(c))
  /\ "setting" \in Everything(c) /\ ~ReadsOnly(c) => MaySet(c)
  /\ Everything(c) \cap {"begin", "end"} # {} => MayBegin(c)
  /\ "use" \in Everything(c) => config.backend = "mysql"
  /\ pc[c] \in {"idle", "acquire"} => DidNothing(c)
  /\ pc[c] \in {"rollback", "redact"} => Did(c, "run")
  /\ answer[c] = "refused" => DidNothing(c)
  /\ answer[c] = "query" /\ AllOrNothing(c) => ~Did(c, "data")
  /\ answer[c] = "ok" => Did(c, "run")

(* What is left on a connection was left by a call that may: a setting, or *)
(* what a roll-back will restore, and the transaction.                     *)
Marks(k) ==
  /\ open[k] # NoCall => pc[open[k]] # "idle" /\ MayBegin(open[k])
  /\ saved[k] # NoCall => pc[saved[k]] # "idle" /\ MaySet(saved[k])
  /\ setting[k] # NoCall =>
       pc[setting[k]] # "idle" /\ (MaySet(setting[k]) \/ (tx[k] /\ config.backend = "postgres"))

(* A connection in its pool. *)
Resting(k) ==
  /\ sent[k] = "none" /\ reply[k] = "none" /\ ~guard[k]
  /\ ~tx[k]

(* A connection in use agrees with what its call waits for. *)
Owned(k, c) ==
  /\ pc[c] \notin {"idle", "acquire"} /\ Home[k] = TargetDb(c)
  /\ (tx[k] => guard[k]) /\ (guard[k] => ReadsOnly(c))
  /\ sent[k] # "none" => reply[k] = "none"
  /\ sent[k] = "begin" => guard[k] /\ ~tx[k]
  /\ sent[k] = "statement" => (ReadsOnly(c) => tx[k])
  /\ sent[k] = "rollback" => tx[k]
  /\ pc[c] = "begin" => \/ sent[k] = "begin"
                        \/ sent[k] = "none" /\ reply[k] = "ok" /\ tx[k]
                        \/ sent[k] = "none" /\ reply[k] = "error"
  /\ pc[c] = "run" => sent[k] \in {"none", "statement"} /\ (ReadsOnly(c) => tx[k])
  /\ pc[c] = "rollback" => sent[k] = "rollback" \/ (sent[k] = "none" /\ reply[k] = "ok" /\ ~tx[k])
  /\ pc[c] = "redact" => sent[k] = "none"
  /\ ReadsOnly(c) => config.backend # "sqlite"

(* It also agrees with what the call has done. *)
Recorded(k, c) ==
  /\ answer[c] # "refused"
  /\ pc[c] = "begin" \/ sent[k] \in {"begin", "statement"} => DidNothing(c)
  /\ sent[k] \in {"begin", "statement"} => answer[c] \in {"none", "timeout"}
  /\ pc[c] = "run" /\ reply[k] = "ok" => Did(c, "run")
  /\ pc[c] = "run" /\ reply[k] = "error" /\ AllOrNothing(c) => ~Did(c, "data")

ConnOK(k) ==
  /\ Marks(k)
  /\ IF owner[k] = NoCall THEN Resting(k) ELSE Owned(k, owner[k]) /\ Recorded(k, owner[k])

OneEach == \A j, k \in Conns : owner[j] # NoCall /\ owner[j] = owner[k] => j = k

(* Some call's USE has run. *)
Moved == config.backend = "mysql" /\ \E v \in done : v.effect = "run" /\ "use" \in Everything(v.call)
Sessions == \A k \in Conns : session[k] = Home[k] \/ Moved

IInv ==
  /\ TypeOK
  /\ \A c \in Calls : CallOK(c)
  /\ \A k \in Conns : ConnOK(k)
  /\ OneEach /\ Sessions
  /\ ReadsChangeNothing /\ RunsInNamedDatabase

-----------------------------------------------------------------------------
(* What a step leaves alone keeps its part of the invariant. *)

(* The configuration fixes the tools and how each runs its statements. *)
LEMMA ConfigFixed ==
  ASSUME config' = config
  PROVE  /\ Callable' = Callable
         /\ \A call : ReadOnlyTransaction(call)' = ReadOnlyTransaction(call) /\ ToolOf(call)' = ToolOf(call)
BY DEF Callable, Registered, ToolOf, ReadOnlyTransaction, PlanOf, MysqlRead, MysqlWrite, MysqlDrop, MysqlExplain,
       PgRead, PgWrite, PgDrop, PgExplain, SqliteRead, SqliteWrite, SqliteDrop, SqliteExplain, Plan

(* A call whose request and statements stay is judged as before. *)
LEMMA CallFixed ==
  ASSUME config' = config, NEW c \in Calls, request'[c] = request[c], effects'[c] = effects[c]
  PROVE  /\ Everything(c)' = Everything(c) /\ ReadsOnly(c)' = ReadsOnly(c)
         /\ Protected(c)' = Protected(c) /\ AllOrNothing(c)' = AllOrNothing(c) /\ TargetDb(c)' = TargetDb(c)
         /\ (MaySet(c)' <=> MaySet(c)) /\ (MayBegin(c)' <=> MayBegin(c))
BY ConfigFixed DEF Everything, Doing, ReadsOnly, Protected, AllOrNothing, TargetDb, MaySet, MayBegin

Kept(c) ==
  /\ pc'[c] = pc[c] /\ request'[c] = request[c] /\ effects'[c] = effects[c] /\ answer'[c] = answer[c]
SameHistory(c) == \A w : w.call = c => (w \in done <=> w \in done')

(* A step that writes no history of a call changes nothing of what it did. *)
LEMMA HistoryFixed ==
  ASSUME NEW c \in Calls, SameHistory(c)
  PROVE  /\ DidNothing(c)' <=> DidNothing(c)
         /\ \A e : Did(c, e)' <=> Did(c, e)
BY DEF SameHistory, Did, DidNothing

(* What is recorded of a call stays true of one that neither moves nor     *)
(* adds to its history.                                                    *)
LEMMA CallFrame ==
  ASSUME config' = config, NEW c \in Calls, Kept(c), SameHistory(c), CallOK(c)
  PROVE  CallOK(c)'
<1>1. /\ Everything(c)' = Everything(c) /\ ReadsOnly(c)' = ReadsOnly(c)
      /\ Protected(c)' = Protected(c) /\ AllOrNothing(c)' = AllOrNothing(c) /\ Callable' = Callable
      /\ (MaySet(c)' <=> MaySet(c)) /\ (MayBegin(c)' <=> MayBegin(c))
  BY CallFixed, ConfigFixed DEF Kept
<1>2. /\ DidNothing(c)' <=> DidNothing(c)
      /\ \A e : Did(c, e)' <=> Did(c, e)
  BY HistoryFixed
<1>3. QED BY <1>1, <1>2 DEF CallOK, Kept

Untouched(k) ==
  /\ owner'[k] = owner[k] /\ sent'[k] = sent[k] /\ reply'[k] = reply[k] /\ guard'[k] = guard[k]
  /\ tx'[k] = tx[k] /\ open'[k] = open[k] /\ setting'[k] = setting[k] /\ saved'[k] = saved[k]

(* No call that has begun becomes another one. *)
Lasting == \A c \in Calls : pc[c] # "idle" => pc'[c] # "idle" /\ request'[c] = request[c]

(* What was left on a connection was left by the same calls as before. *)
LEMMA MarksFrame ==
  ASSUME TypeOK, config' = config, Lasting, NEW k \in Conns, Marks(k),
         open'[k] = open[k], saved'[k] = saved[k], setting'[k] = setting[k], tx'[k] = tx[k]
  PROVE  Marks(k)'
<1>1. open[k] \in Calls \cup {NoCall} /\ saved[k] \in Calls \cup {NoCall} /\ setting[k] \in Calls \cup {NoCall}
  BY DEF TypeOK
<1>2. QED BY <1>1 DEF Marks, MaySet, MayBegin, Lasting

(* What a connection carries stays true when nothing touches it and its    *)
(* owner neither moves nor adds to its history.                            *)
LEMMA ConnFrame ==
  ASSUME TypeOK, config' = config, Lasting, NEW k \in Conns, Untouched(k), ConnOK(k),
         owner[k] # NoCall => Kept(owner[k]) /\ SameHistory(owner[k])
  PROVE  ConnOK(k)'
<1>0. Marks(k)'
  BY MarksFrame DEF ConnOK, Untouched
<1>1. CASE owner[k] = NoCall
  BY <1>0, <1>1 DEF ConnOK, Untouched, Resting
<1>2. CASE owner[k] # NoCall
  <2>1. PICK c \in Calls : owner[k] = c
    BY <1>2 DEF TypeOK
  <2>2. ReadsOnly(c)' = ReadsOnly(c) /\ AllOrNothing(c)' = AllOrNothing(c) /\ TargetDb(c)' = TargetDb(c)
    BY <1>2, <2>1, CallFixed DEF Kept
  <2>3. /\ DidNothing(c)' <=> DidNothing(c)
        /\ \A e : Did(c, e)' <=> Did(c, e)
    BY <1>2, <2>1, HistoryFixed
  <2>4. QED BY <1>0, <1>2, <2>1, <2>2, <2>3 DEF ConnOK, Untouched, Kept, Owned, Recorded
<1>3. QED BY <1>1, <1>2

(* What has been done is judged as before when no call that has begun      *)
(* changes its request.                                                    *)
LEMMA DoneFrame ==
  ASSUME IInv, config' = config,
         \A c \in Calls : pc[c] # "idle" => request'[c] = request[c] /\ effects'[c] = effects[c]
  PROVE  /\ \A w \in done : pc[w.call] \notin {"idle", "acquire"}
         /\ \A w \in done : /\ ToolOf(request[w.call].tool)' = ToolOf(request[w.call].tool)
                            /\ Everything(w.call)' = Everything(w.call) /\ TargetDb(w.call)' = TargetDb(w.call)
         /\ done' = done => ReadsChangeNothing' /\ RunsInNamedDatabase'
         /\ done \subseteq done' => (Moved => Moved')
<1>1. \A w \in done : w.call \in Calls
  BY DEF IInv, TypeOK
<1>2. \A w \in done : pc[w.call] \notin {"idle", "acquire"}
  BY <1>1 DEF IInv, CallOK, DidNothing
<1>3. \A w \in done : request'[w.call] = request[w.call] /\ effects'[w.call] = effects[w.call]
  BY <1>1, <1>2
<1>4. \A w \in done : /\ ToolOf(request[w.call].tool)' = ToolOf(request[w.call].tool)
                      /\ Everything(w.call)' = Everything(w.call) /\ TargetDb(w.call)' = TargetDb(w.call)
  BY <1>1, <1>3, CallFixed, ConfigFixed
<1>5. done' = done => ReadsChangeNothing'
  BY <1>4 DEF IInv, ReadsChangeNothing
<1>6. done' = done => RunsInNamedDatabase'
  BY <1>4 DEF IInv, RunsInNamedDatabase, Everything
<1>7. done \subseteq done' => (Moved => Moved')
  BY <1>4 DEF Moved
<1>8. QED BY <1>2, <1>4, <1>5, <1>6, <1>7

(* A step that records nothing: what remains to be shown is the calls and  *)
(* the connections it changes.                                             *)
LEMMA StepFrame ==
  ASSUME IInv, TypeOK', config' = config, done' = done, OneEach',
         \A c \in Calls : pc[c] # "idle" => request'[c] = request[c] /\ effects'[c] = effects[c],
         \A c \in Calls : Kept(c) \/ (CallOK(c)' /\ pc'[c] # "idle"),
         \A k \in Conns : \/ Untouched(k) /\ (owner[k] # NoCall => Kept(owner[k]))
                          \/ ConnOK(k)',
         \A k \in Conns : session'[k] \in {session[k], Home[k]}
  PROVE  IInv'
<1>1. ReadsChangeNothing' /\ RunsInNamedDatabase' /\ (Moved => Moved')
  BY DoneFrame
<1>2. \A c : SameHistory(c)
  BY DEF SameHistory
<1>3. ASSUME NEW c \in Calls PROVE CallOK(c)'
  BY <1>2, CallFrame DEF IInv
<1>4. ASSUME NEW k \in Conns PROVE ConnOK(k)'
  <2>1. Lasting
    BY DEF Lasting, Kept
  <2>2. QED BY <1>2, <2>1, ConnFrame DEF IInv
<1>5. Sessions'
  BY <1>1 DEF IInv, Sessions
<1>6. QED BY <1>1, <1>3, <1>4, <1>5 DEF IInv

(* At the start nothing was asked, sent or done. *)
LEMMA InitIInv == Init => IInv
<1> SUFFICES ASSUME Init PROVE IInv
  OBVIOUS
<1>1. TypeOK
  BY DbsAssumption DEF Init, TypeOK, QueryCalls
<1>2. ASSUME NEW c \in Calls PROVE CallOK(c)
  <2>1. Everything(c) = {}
    BY DEF Init, Everything, Doing
  <2>2. QED BY <2>1 DEF Init, CallOK, DidNothing
<1>3. ASSUME NEW k \in Conns PROVE ConnOK(k)
  BY DEF Init, ConnOK, Resting, Marks
<1>4. OneEach /\ Sessions
  BY DEF Init, OneEach, Sessions
<1>5. ReadsChangeNothing /\ RunsInNamedDatabase
  BY DEF Init, ReadsChangeNothing, RunsInNamedDatabase
<1>6. QED BY <1>1, <1>2, <1>3, <1>4, <1>5 DEF IInv

(* A call starts: its statements are those its tool sends when the         *)
(* validation accepts the text, and none otherwise.                        *)
LEMMA InvokeKeeps ==
  ASSUME IInv, NEW c \in Calls, pc[c] = "idle",
         NEW tool \in Callable, NEW text \in Text, NEW db \in Named(tool), Invoke(c, tool, text, db)
  PROVE  IInv'
<1> DEFINE plan == PlanOf(config.backend, tool)
           accepted == Accepted(Validate(plan, text))
           does == [i \in DOMAIN text.stmts |-> Does(plan, text.stmts[i])]
<1>1. TypeOK /\ config \in Configs /\ CallOK(c)
  BY DEF IInv, TypeOK
<1>2. text.stmts \in Seq(Statement)
  BY TextStatements
<1>3. does \in Seq(SUBSET Effect) /\ Len(does) = Len(text.stmts) /\ DOMAIN does = 1..Len(text.stmts)
  <2>1. \A i \in DOMAIN text.stmts : Does(plan, text.stmts[i]) \in SUBSET Effect
    BY <1>2, DoesType
  <2> HIDE DEF plan
  <2>2. QED BY <1>2, <2>1
<1>4. UNCHANGED <<config, owner, sent, reply, guard, tx, open, session, setting, saved, done>>
  BY DEF Invoke, connVars, sessionVars
<1>5. /\ request' = [request EXCEPT ![c] = [tool |-> tool, db |-> db]]
      /\ accepted => /\ pc' = [pc EXCEPT ![c] = "acquire"]
                     /\ effects' = [effects EXCEPT ![c] = does] /\ answer' = answer
      /\ ~accepted => /\ pc' = [pc EXCEPT ![c] = "done"]
                      /\ answer' = [answer EXCEPT ![c] = "refused"] /\ effects' = effects
  BY DEF Invoke
<1>6. tool \in QueryCalls \cup {"analyzeQuery"} /\ db \in Dbs \cup {NoDb}
  BY <1>1, CallFacts DEF Named
<1>7. TypeOK'
  <2> HIDE DEF accepted, does
  <2>1. request' \in [Calls -> [tool : QueryCalls \cup {"analyzeQuery"}, db : Dbs \cup {NoDb}]]
    BY <1>1, <1>5, <1>6 DEF TypeOK
  <2>2. effects' \in [Calls -> Seq(SUBSET Effect)]
    BY <1>1, <1>3, <1>5 DEF TypeOK
  <2>3. QED BY <1>1, <1>4, <1>5, <2>1, <2>2 DEF TypeOK
<1>8. \A d \in Calls : d # c => Kept(d)
  <2> HIDE DEF accepted, does
  <2>1. QED BY <1>1, <1>5 DEF Kept, TypeOK
<1>9. CallOK(c)' /\ pc'[c] # "idle"
  <2> HIDE DEF accepted
  <2>1. request'[c] = [tool |-> tool, db |-> db] /\ Callable' = Callable
    BY <1>1, <1>4, <1>5, ConfigFixed DEF TypeOK
  <2>2. ReadsOnly(c)' = plan.readOnly /\ (Protected(c)' <=> config.readOnly \/ tool = "readQuery")
    BY <1>4, <2>1, ConfigFixed DEF ReadsOnly, Protected, ReadOnlyTransaction
  <2>3. DidNothing(c)' /\ answer[c] = "none"
    BY <1>1, <1>4 DEF CallOK, DidNothing
  <2>4. CASE accepted
    <3>1. pc'[c] = "acquire" /\ answer'[c] = "none" /\ effects'[c] = does
      BY <1>1, <1>5, <2>3, <2>4 DEF TypeOK
    <3>2. Everything(c)' = UNION {does[i] : i \in DOMAIN does}
      <4> HIDE DEF does
      <4>1. QED BY <1>3, <3>1 DEF Everything, Doing
    <3>3. ASSUME NEW i \in DOMAIN does
          PROVE  /\ config.readOnly \/ tool = "readQuery" =>
                      "outside" \notin does[i] /\ (~plan.readOnly => "data" \notin does[i])
                 /\ "setting" \in does[i] /\ ~plan.readOnly => MaySet(c)'
                 /\ does[i] \cap {"begin", "end"} # {} => MayBegin(c)'
                 /\ "use" \in does[i] => config.backend = "mysql"
      <4>1. does[i] = Does(plan, text.stmts[i])
        OBVIOUS
      <4>2. accepted /\ i \in DOMAIN text.stmts
        BY <2>4
      <4>3. /\ MaySet(c)' <=> \/ config.backend = "mysql"
                             \/ (~config.readOnly /\ tool \in {"writeQuery", "analyzeQuery"})
            /\ MayBegin(c)' <=> ~config.readOnly /\ tool = "writeQuery"
        BY <1>4, <2>1 DEF MaySet, MayBegin
      <4> HIDE DEF does
      <4>4. QED BY <1>1, <4>1, <4>2, <4>3, AcceptedDoes DEF accepted
    <3> HIDE DEF does, plan
    <3>4. QED BY <1>4, <2>1, <2>2, <2>3, <3>1, <3>2, <3>3 DEF CallOK
  <2>5. CASE ~accepted
    <3>1. pc'[c] = "done" /\ answer'[c] = "refused" /\ effects'[c] = <<>>
      BY <1>1, <1>5, <2>5 DEF TypeOK, CallOK
    <3>2. Everything(c)' = {}
      BY <3>1 DEF Everything, Doing
    <3> HIDE DEF plan
    <3>3. QED BY <1>4, <2>1, <2>2, <2>3, <3>1, <3>2 DEF CallOK
  <2>6. QED BY <2>4, <2>5
<1>10. ASSUME NEW k \in Conns PROVE Untouched(k) /\ (owner[k] # NoCall => Kept(owner[k]))
  <2>1. Untouched(k)
    BY <1>4 DEF Untouched
  <2>2. owner[k] # NoCall => owner[k] \in Calls /\ owner[k] # c
    BY <1>1 DEF IInv, TypeOK, ConnOK, Owned
  <2>3. QED BY <2>1, <2>2, <1>8
<1>11. OneEach' /\ \A k \in Conns : session'[k] \in {session[k], Home[k]}
  BY <1>4 DEF IInv, OneEach
<1>12. \A d \in Calls : pc[d] # "idle" => request'[d] = request[d] /\ effects'[d] = effects[d]
  BY <1>8 DEF Kept
<1>13. QED BY <1>4, <1>7, <1>8, <1>9, <1>10, <1>11, <1>12, StepFrame

(* A call that has not acquired a connection owns none, and no other call  *)
(* owns the connection of one that has.                                    *)
LEMMA Ownership ==
  ASSUME IInv, NEW c \in Calls, NEW k \in Conns
  PROVE  /\ owner[k] = c => owner[k] # NoCall /\ Owned(k, c) /\ Recorded(k, c)
         /\ owner[k] = c => \A j \in Conns : j # k => owner[j] # c
         /\ pc[c] \in {"idle", "acquire"} => owner[k] # c
<1>1. c # NoCall
  BY CallsAssumption
<1>2. QED BY <1>1 DEF IInv, ConnOK, OneEach, Owned

(* A call takes a connection that rests, and the first command it sends    *)
(* there is the one its tool starts with.                                  *)
LEMMA AcquireKeeps ==
  ASSUME IInv, NEW c \in Calls, NEW k \in Conns, Acquire(c, k)
  PROVE  IInv'
<1> DEFINE readOnly == ReadOnlyTransaction(request[c].tool)
<1>1. TypeOK /\ CallOK(c) /\ Resting(k) /\ owner[k] = NoCall /\ pc[c] = "acquire" /\ Home[k] = TargetDb(c)
  BY DEF IInv, Acquire, Serves, ConnOK
<1>2. readOnly = ReadsOnly(c) /\ readOnly \in BOOLEAN /\ (readOnly => config.backend # "sqlite")
  BY <1>1, PlanFacts DEF ReadsOnly, ReadOnlyTransaction, TypeOK, CallOK
<1>3. /\ UNCHANGED <<config, request, effects, answer, reply, tx, open, session, setting, saved, done>>
      /\ owner' = [owner EXCEPT ![k] = c]
      /\ pc' = [pc EXCEPT ![c] = IF readOnly THEN "begin" ELSE "run"]
      /\ sent' = [sent EXCEPT ![k] = IF readOnly THEN "begin" ELSE "statement"]
      /\ guard' = [guard EXCEPT ![k] = readOnly]
  BY DEF Acquire, sessionVars
<1> HIDE DEF readOnly
<1>4. TypeOK'
  BY <1>1, <1>2, <1>3 DEF TypeOK
<1>5. /\ Everything(c)' = Everything(c) /\ ReadsOnly(c)' = ReadsOnly(c) /\ TargetDb(c)' = TargetDb(c)
      /\ Protected(c)' = Protected(c) /\ AllOrNothing(c)' = AllOrNothing(c) /\ Callable' = Callable
      /\ (MaySet(c)' <=> MaySet(c)) /\ (MayBegin(c)' <=> MayBegin(c))
      /\ (DidNothing(c)' <=> DidNothing(c)) /\ \A e : Did(c, e)' <=> Did(c, e)
  BY <1>3, CallFixed, ConfigFixed, HistoryFixed DEF SameHistory
<1>6. CallOK(c)' /\ pc'[c] # "idle"
  BY <1>1, <1>3, <1>5 DEF CallOK, TypeOK
<1>7. \A d \in Calls : d # c => Kept(d)
  BY <1>1, <1>3 DEF Kept, TypeOK
<1>8. ConnOK(k)'
  <2>1. Owned(k, c)'
    BY <1>1, <1>2, <1>3, <1>5 DEF Owned, Resting, TypeOK
  <2>2. Recorded(k, c)'
    BY <1>1, <1>2, <1>3, <1>5 DEF Recorded, Resting, TypeOK, CallOK
  <2>3. owner'[k] = c
    BY <1>1, <1>3 DEF TypeOK
  <2>4. Marks(k)'
    <3>1. Lasting
      BY <1>1, <1>3 DEF Lasting, TypeOK
    <3>2. QED BY <1>1, <1>3, <3>1, MarksFrame DEF IInv, ConnOK
  <2>5. QED BY <2>1, <2>2, <2>3, <2>4, CallsAssumption DEF ConnOK
<1>9. ASSUME NEW j \in Conns, j # k PROVE Untouched(j) /\ (owner[j] # NoCall => Kept(owner[j]))
  <2>1. Untouched(j)
    BY <1>1, <1>3, <1>9 DEF Untouched, TypeOK
  <2>2. owner[j] # NoCall => owner[j] \in Calls /\ owner[j] # c
    BY <1>1, Ownership DEF TypeOK
  <2>3. QED BY <2>1, <2>2, <1>7
<1>10. OneEach'
  BY <1>1, <1>3, Ownership DEF IInv, OneEach, TypeOK
<1>11. QED BY <1>3, <1>4, <1>6, <1>7, <1>8, <1>9, <1>10, StepFrame

(* What a call is recorded to do, and did, is a matter of its request, its *)
(* statements and its history alone.                                       *)
LEMMA SameCall ==
  ASSUME NEW c \in Calls, UNCHANGED <<config, request, effects, done>>
  PROVE  /\ Everything(c)' = Everything(c) /\ ReadsOnly(c)' = ReadsOnly(c) /\ TargetDb(c)' = TargetDb(c)
         /\ Protected(c)' = Protected(c) /\ AllOrNothing(c)' = AllOrNothing(c) /\ Callable' = Callable
         /\ (MaySet(c)' <=> MaySet(c)) /\ (MayBegin(c)' <=> MayBegin(c))
         /\ (DidNothing(c)' <=> DidNothing(c)) /\ \A e : Did(c, e)' <=> Did(c, e)
BY CallFixed, ConfigFixed, HistoryFixed DEF SameHistory

(* A call that gets no connection ends without having done anything. *)
LEMMA AcquireErrKeeps ==
  ASSUME IInv, NEW c \in Calls, AcquireErr(c)
  PROVE  IInv'
<1>1. TypeOK /\ CallOK(c) /\ pc[c] = "acquire"
  BY DEF IInv, AcquireErr
<1>2. /\ UNCHANGED <<config, request, effects, owner, sent, reply, guard, tx, open, session, setting, saved, done>>
      /\ pc' = [pc EXCEPT ![c] = "done"]
      /\ answer' = [answer EXCEPT ![c] = "connection"]
  BY DEF AcquireErr, connVars, sessionVars
<1>3. TypeOK'
  BY <1>1, <1>2 DEF TypeOK
<1>4. CallOK(c)' /\ pc'[c] # "idle"
  BY <1>1, <1>2, SameCall DEF CallOK, TypeOK
<1>5. \A d \in Calls : d # c => Kept(d)
  BY <1>1, <1>2 DEF Kept, TypeOK
<1>6. ASSUME NEW k \in Conns PROVE Untouched(k) /\ (owner[k] # NoCall => Kept(owner[k]))
  BY <1>1, <1>2, <1>5, Ownership DEF Untouched, TypeOK
<1>7. OneEach'
  BY <1>2 DEF IInv, OneEach
<1>8. QED BY <1>2, <1>3, <1>4, <1>5, <1>6, <1>7, StepFrame

(* A step of a call that is neither idle nor at its pool, on the one       *)
(* connection it owns, which may change what both of them remember.        *)
LEMMA CallStep ==
  ASSUME IInv, NEW c \in Calls, NEW k \in Conns, owner[k] = c, TypeOK',
         UNCHANGED <<config, request, effects, owner, session, done>>,
         \A d \in Calls : d # c => Kept(d),
         \A j \in Conns : j # k => Untouched(j),
         CallOK(c)' /\ pc'[c] # "idle", Owned(k, c)' /\ Recorded(k, c)',
         UNCHANGED <<tx, open, setting, saved>> \/ Marks(k)'
  PROVE  IInv'
<1>1. ConnOK(k)'
  <2>1. Lasting
    BY DEF Lasting, Kept
  <2>2. Marks(k)'
    BY <2>1, MarksFrame DEF IInv, ConnOK
  <2>3. QED BY <2>2, CallsAssumption DEF ConnOK
<1>2. ASSUME NEW j \in Conns, j # k PROVE Untouched(j) /\ (owner[j] # NoCall => Kept(owner[j]))
  <2>1. owner[j] # NoCall => owner[j] \in Calls /\ owner[j] # c
    BY <1>2, Ownership DEF IInv, TypeOK
  <2>2. QED BY <1>2, <2>1
<1>3. OneEach'
  BY DEF IInv, OneEach
<1>4. QED BY <1>1, <1>2, <1>3, StepFrame

(* The transaction began: the first statement is sent inside it. *)
LEMMA BeganKeeps ==
  ASSUME IInv, NEW c \in Calls, NEW k \in Conns, Began(c, k)
  PROVE  IInv'
<1>1. TypeOK /\ CallOK(c) /\ owner[k] = c /\ pc[c] = "begin" /\ sent[k] = "none" /\ reply[k] = "ok"
  BY DEF IInv, Began, Waits
<1>2. Owned(k, c) /\ Recorded(k, c)
  BY <1>1, Ownership
<1>3. /\ UNCHANGED <<config, request, effects, answer, owner, guard, tx, open, session, setting, saved, done>>
      /\ pc' = [pc EXCEPT ![c] = "run"] /\ sent' = [sent EXCEPT ![k] = "statement"]
      /\ reply' = [reply EXCEPT ![k] = "none"]
  BY DEF Began, sessionVars
<1>4. TypeOK'
  BY <1>1, <1>3 DEF TypeOK
<1>5. CallOK(c)' /\ pc'[c] # "idle"
  BY <1>1, <1>3, SameCall DEF CallOK, TypeOK
<1>6. Owned(k, c)'
  BY <1>1, <1>2, <1>3, SameCall DEF Owned, TypeOK
<1>7. Recorded(k, c)'
  BY <1>1, <1>2, <1>3, SameCall DEF Recorded, CallOK, TypeOK
<1>8. \A d \in Calls : d # c => Kept(d)
  BY <1>1, <1>3 DEF Kept, TypeOK
<1>9. \A j \in Conns : j # k => Untouched(j)
  BY <1>1, <1>3 DEF Untouched, TypeOK
<1>10. QED BY <1>1, <1>3, <1>4, <1>5, <1>6, <1>7, <1>8, <1>9, CallStep

(* A statement was answered: the next one, the roll-back or the end        *)
(* follows.                                                                *)
LEMMA RanKeeps ==
  ASSUME IInv, NEW c \in Calls, NEW k \in Conns, Ran(c, k)
  PROVE  IInv'
<1>1. TypeOK /\ CallOK(c) /\ owner[k] = c /\ pc[c] = "run" /\ sent[k] = "none" /\ reply[k] = "ok"
  BY DEF IInv, Ran, Waits
<1>2. Owned(k, c) /\ Recorded(k, c)
  BY <1>1, Ownership
<1>3. /\ UNCHANGED <<config, request, effects, answer, owner, guard, tx, open, session, setting, saved, done>>
      /\ reply' = [reply EXCEPT ![k] = "none"]
      /\ \/ ReadsOnly(c) /\ pc' = [pc EXCEPT ![c] = "rollback"] /\ sent' = [sent EXCEPT ![k] = "rollback"]
         \/ ~ReadsOnly(c) /\ pc' = [pc EXCEPT ![c] = "redact"] /\ sent' = sent
  BY DEF Ran, sessionVars, ReadsOnly
<1>4. TypeOK'
  <2>1. CASE pc' = [pc EXCEPT ![c] = "rollback"] /\ sent' = [sent EXCEPT ![k] = "rollback"]
    BY <1>1, <1>3, <2>1 DEF TypeOK
  <2>2. CASE pc' = [pc EXCEPT ![c] = "redact"] /\ sent' = sent
    BY <1>1, <1>3, <2>2 DEF TypeOK
  <2>3. QED BY <1>3, <2>1, <2>2
<1>5. CallOK(c)' /\ pc'[c] # "idle"
  BY <1>1, <1>2, <1>3, SameCall DEF CallOK, Recorded, TypeOK
<1>6. Owned(k, c)'
  BY <1>1, <1>2, <1>3, SameCall DEF Owned, TypeOK
<1>7. Recorded(k, c)'
  BY <1>1, <1>2, <1>3, SameCall DEF Recorded, CallOK, TypeOK
<1>8. \A d \in Calls : d # c => Kept(d)
  BY <1>1, <1>3 DEF Kept, TypeOK
<1>9. \A j \in Conns : j # k => Untouched(j)
  BY <1>1, <1>3 DEF Untouched, TypeOK
<1>10. QED BY <1>1, <1>3, <1>4, <1>5, <1>6, <1>7, <1>8, <1>9, CallStep

(* The transaction was rolled back: the guard is gone and so is what it    *)
(* covered.                                                                *)
LEMMA RolledBackKeeps ==
  ASSUME IInv, NEW c \in Calls, NEW k \in Conns, RolledBack(c, k)
  PROVE  IInv'
<1>1. TypeOK /\ CallOK(c) /\ owner[k] = c /\ pc[c] = "rollback" /\ sent[k] = "none" /\ reply[k] = "ok"
  BY DEF IInv, RolledBack, Waits
<1>2. Owned(k, c) /\ Recorded(k, c)
  BY <1>1, Ownership
<1>3. /\ UNCHANGED <<config, request, effects, answer, owner, sent, tx, open, session, setting, saved, done>>
      /\ pc' = [pc EXCEPT ![c] = "redact"] /\ reply' = [reply EXCEPT ![k] = "none"]
      /\ guard' = [guard EXCEPT ![k] = FALSE]
  BY DEF RolledBack, sessionVars
<1>4. TypeOK'
  BY <1>1, <1>3 DEF TypeOK
<1>5. CallOK(c)' /\ pc'[c] # "idle"
  BY <1>1, <1>3, SameCall DEF CallOK, TypeOK
<1>6. Owned(k, c)'
  BY <1>1, <1>2, <1>3, SameCall DEF Owned, TypeOK
<1>7. Recorded(k, c)'
  BY <1>1, <1>2, <1>3, SameCall DEF Recorded, CallOK, TypeOK
<1>8. \A d \in Calls : d # c => Kept(d)
  BY <1>1, <1>3 DEF Kept, TypeOK
<1>9. \A j \in Conns : j # k => Untouched(j)
  BY <1>1, <1>3 DEF Untouched, TypeOK
<1>10. QED BY <1>1, <1>3, <1>4, <1>5, <1>6, <1>7, <1>8, <1>9, CallStep

(* A command was answered with an error: the call ends with it, and a      *)
(* guard that is left rolls back when dropped.                             *)
LEMMA FailedKeeps ==
  ASSUME IInv, NEW c \in Calls, NEW k \in Conns, Failed(c, k)
  PROVE  IInv'
<1>1. /\ TypeOK /\ CallOK(c) /\ owner[k] = c /\ pc[c] \in {"begin", "run", "rollback"}
      /\ sent[k] = "none" /\ reply[k] = "error"
  BY DEF IInv, Failed, Waits
<1>2. Owned(k, c) /\ Recorded(k, c)
  BY <1>1, Ownership
<1>3. /\ UNCHANGED <<config, request, effects, owner, sent, guard, tx, open, session, setting, saved, done>>
      /\ pc' = [pc EXCEPT ![c] = "done"] /\ answer' = [answer EXCEPT ![c] = "query"]
      /\ reply' = [reply EXCEPT ![k] = "none"]
  BY DEF Failed, sessionVars
<1>4. AllOrNothing(c) => ~Did(c, "data")
  BY <1>1, <1>2 DEF Owned, Recorded, DidNothing, Did
<1>5. TypeOK'
  BY <1>1, <1>3 DEF TypeOK
<1>6. CallOK(c)' /\ pc'[c] # "idle"
  BY <1>1, <1>2, <1>3, <1>4, SameCall DEF CallOK, Recorded, TypeOK
<1>7. Owned(k, c)'
  BY <1>1, <1>2, <1>3, SameCall DEF Owned, TypeOK
<1>8. Recorded(k, c)'
  BY <1>1, <1>2, <1>3, SameCall DEF Recorded, TypeOK
<1>9. \A d \in Calls : d # c => Kept(d)
  BY <1>1, <1>3 DEF Kept, TypeOK
<1>10. \A j \in Conns : j # k => Untouched(j)
  BY <1>1, <1>3 DEF Untouched, TypeOK
<1>11. QED BY <1>1, <1>3, <1>5, <1>6, <1>7, <1>8, <1>9, <1>10, CallStep

(* A call ends without its connection: by a timeout wherever it waits, or  *)
(* after its statement has been answered.                                  *)
LEMMA EndKeeps ==
  ASSUME IInv, NEW c \in Calls, NEW a \in {"ok", "redaction", "timeout"},
         pc[c] \in {"acquire", "begin", "run", "rollback", "redact"},
         a # "timeout" => pc[c] = "redact",
         pc' = [pc EXCEPT ![c] = "done"], answer' = [answer EXCEPT ![c] = a],
         UNCHANGED <<config, request, effects, connVars, sessionVars, done>>
  PROVE  IInv'
<1>1. TypeOK /\ CallOK(c)
  BY DEF IInv
<1>2. UNCHANGED <<config, request, effects, owner, sent, reply, guard, tx, open, session, setting, saved, done>>
  BY DEF connVars, sessionVars
<1>3. TypeOK'
  BY <1>1, <1>2 DEF TypeOK
<1>4. CallOK(c)' /\ pc'[c] # "idle"
  BY <1>1, <1>2, SameCall DEF CallOK, TypeOK
<1>5. \A d \in Calls : d # c => Kept(d)
  BY <1>1, <1>2 DEF Kept, TypeOK
<1>6. ASSUME NEW k \in Conns
      PROVE  \/ Untouched(k) /\ (owner[k] # NoCall => Kept(owner[k]))
             \/ ConnOK(k)'
  <2>1. CASE owner[k] = c
    <3>1. Owned(k, c) /\ Recorded(k, c)
      BY <2>1, Ownership
    <3>2. Owned(k, c)'
      BY <1>1, <1>2, <3>1, SameCall DEF Owned, TypeOK
    <3>3. Recorded(k, c)'
      BY <1>1, <1>2, <3>1, SameCall DEF Recorded, Owned, TypeOK
    <3>4. owner'[k] = c
      BY <1>2, <2>1
    <3>5. Marks(k)'
      <4>1. Lasting
        BY <1>1, <1>2 DEF Lasting, TypeOK
      <4>2. QED BY <1>1, <1>2, <4>1, MarksFrame DEF IInv, ConnOK
    <3>6. QED BY <3>2, <3>3, <3>4, <3>5, CallsAssumption DEF ConnOK
  <2>2. CASE owner[k] # c
    BY <1>1, <1>2, <1>5, <2>2 DEF Untouched, TypeOK
  <2>3. QED BY <2>1, <2>2
<1>7. OneEach'
  BY <1>2 DEF IInv, OneEach
<1>8. QED BY <1>2, <1>3, <1>4, <1>5, <1>6, <1>7, StepFrame

(* The timeout drops the call wherever it waits. *)
LEMMA QueryTimeoutKeeps ==
  ASSUME IInv, NEW c \in Calls, QueryTimeout(c)
  PROVE  IInv'
BY EndKeeps DEF QueryTimeout

(* The answer passes the redactor, which may refuse it. *)
LEMMA RedactKeeps ==
  ASSUME IInv, NEW c \in Calls, Redact(c)
  PROVE  IInv'
<1>1. PICK a \in {"ok", "redaction"} : answer' = [answer EXCEPT ![c] = a]
  BY DEF Redact
<1>2. QED BY <1>1, EndKeeps DEF Redact

-----------------------------------------------------------------------------
(* The connections' own steps. *)

(* A dropped connection goes back to the pool when nothing is in flight on *)
(* it, after the roll-back its guard queues.                               *)
LEMMA ReturnKeeps ==
  ASSUME IInv, NEW k \in Conns, Return(k)
  PROVE  IInv'
<1>1. PICK c \in Calls : owner[k] = c
  BY DEF IInv, TypeOK, Return
<1>2. TypeOK /\ sent[k] = "none" /\ Owned(k, c)
  BY <1>1, Ownership DEF IInv, Return
<1>3. /\ UNCHANGED <<config, pc, request, effects, answer, sent, session, saved, done>>
      /\ owner' = [owner EXCEPT ![k] = NoCall] /\ reply' = [reply EXCEPT ![k] = "none"]
      /\ guard' = [guard EXCEPT ![k] = FALSE]
  BY DEF Return, callVars
<1>10. PICK undo \in {guard[k], guard[k] /\ tx[k]} :
         /\ tx' = [tx EXCEPT ![k] = tx[k] /\ ~undo]
         /\ setting' = [setting EXCEPT ![k] = IF undo THEN Restored(k) ELSE setting[k]]
         /\ open' = [open EXCEPT ![k] = IF undo /\ config.backend = "postgres" THEN NoCall ELSE open[k]]
  BY DEF Return
<1>11. Restored(k) \in Calls \cup {NoCall} /\ undo \in BOOLEAN
  BY <1>2 DEF Restored, TypeOK
<1>4. TypeOK'
  BY <1>2, <1>3, <1>10, <1>11 DEF TypeOK
<1>5. \A d : Kept(d)
  BY <1>3 DEF Kept
<1>6. ConnOK(k)'
  <2>1. ~tx'[k]
    BY <1>2, <1>10 DEF Owned, TypeOK
  <2>2. /\ open'[k] \in {open[k], NoCall} /\ saved'[k] = saved[k]
        /\ setting'[k] = IF undo THEN Restored(k) ELSE setting[k]
    BY <1>2, <1>3, <1>10 DEF TypeOK
  <2>3. Marks(k)
    BY DEF IInv, ConnOK
  <2>4. undo \/ ~tx[k]
    BY <1>2, <1>10 DEF Owned, TypeOK
  <2>5. Marks(k)'
    BY <1>2, <1>3, <2>1, <2>2, <2>3, <2>4 DEF Marks, MaySet, MayBegin, Restored, TypeOK
  <2>6. QED BY <1>2, <1>3, <2>1, <2>5 DEF ConnOK, Resting, TypeOK
<1>7. \A j \in Conns : j # k => Untouched(j)
  BY <1>2, <1>3, <1>10 DEF Untouched, TypeOK
<1>8. OneEach'
  BY <1>2, <1>3 DEF IInv, OneEach, TypeOK
<1>9. QED BY <1>3, <1>4, <1>5, <1>6, <1>7, <1>8, StepFrame

(* A connection breaks: the server forgets its session and the pool opens  *)
(* another.                                                                *)
LEMMA BreakKeeps ==
  ASSUME IInv, NEW k \in Conns, Break(k)
  PROVE  IInv'
<1>1. PICK c \in Calls : owner[k] = c
  BY DEF IInv, TypeOK, Break
<1>2. TypeOK /\ CallOK(c)
  BY DEF IInv
<1>3. /\ UNCHANGED <<config, request, effects, saved, done>>
      /\ owner' = [owner EXCEPT ![k] = NoCall] /\ sent' = [sent EXCEPT ![k] = "none"]
      /\ reply' = [reply EXCEPT ![k] = "none"] /\ guard' = [guard EXCEPT ![k] = FALSE]
      /\ tx' = [tx EXCEPT ![k] = FALSE] /\ session' = [session EXCEPT ![k] = Home[k]]
      /\ setting' = [setting EXCEPT ![k] = NoCall] /\ open' = [open EXCEPT ![k] = NoCall]
      /\ \/ /\ pc[c] \in {"begin", "run", "rollback"}
            /\ pc' = [pc EXCEPT ![c] = "done"] /\ answer' = [answer EXCEPT ![c] = "connection"]
         \/ pc' = pc /\ answer' = answer
  BY <1>1 DEF Break
<1>4. TypeOK'
  BY <1>2, <1>3, DbsAssumption DEF TypeOK
<1>5. Kept(c) \/ (CallOK(c)' /\ pc'[c] # "idle")
  <2>1. CASE pc' = pc /\ answer' = answer
    BY <1>3, <2>1 DEF Kept
  <2>2. CASE /\ pc[c] \in {"begin", "run", "rollback"}
             /\ pc' = [pc EXCEPT ![c] = "done"] /\ answer' = [answer EXCEPT ![c] = "connection"]
    BY <1>2, <1>3, <2>2, SameCall DEF CallOK, TypeOK
  <2>3. QED BY <1>3, <2>1, <2>2
<1>6. \A d \in Calls : d # c => Kept(d)
  BY <1>2, <1>3 DEF Kept, TypeOK
<1>7. ConnOK(k)'
  <2>1. \A d \in Calls : pc[d] # "idle" => pc'[d] # "idle"
    BY <1>2, <1>3 DEF TypeOK
  <2>2. Marks(k)
    BY DEF IInv, ConnOK
  <2>3. saved[k] \in Calls \cup {NoCall} /\ saved'[k] = saved[k]
    BY <1>2, <1>3 DEF TypeOK
  <2>4. open'[k] = NoCall /\ setting'[k] = NoCall
    BY <1>2, <1>3 DEF TypeOK
  <2>5. Marks(k)'
    BY <1>3, <2>1, <2>2, <2>3, <2>4 DEF Marks, MaySet, MayBegin
  <2>6. QED BY <1>2, <1>3, <2>5 DEF ConnOK, Resting, TypeOK
<1>8. ASSUME NEW j \in Conns, j # k PROVE Untouched(j) /\ (owner[j] # NoCall => Kept(owner[j]))
  <2>1. Untouched(j)
    BY <1>2, <1>3, <1>8 DEF Untouched, TypeOK
  <2>2. owner[j] # NoCall => owner[j] \in Calls /\ owner[j] # c
    BY <1>1, <1>2, <1>8, Ownership DEF TypeOK
  <2>3. QED BY <1>6, <2>1, <2>2
<1>9. OneEach'
  BY <1>2, <1>3 DEF IInv, OneEach, TypeOK
<1>10. \A j \in Conns : session'[j] \in {session[j], Home[j]}
  BY <1>2, <1>3 DEF TypeOK
<1>11. QED BY <1>3, <1>4, <1>5, <1>6, <1>7, <1>8, <1>9, <1>10, StepFrame

(* A statement that is executed records part of what its call does; in a   *)
(* read-only transaction it changes no data.                               *)
LEMMA StatementStep ==
  ASSUME IInv, NEW c \in Calls, NEW k \in Conns, owner[k] = c, sent[k] = "statement", TypeOK',
         UNCHANGED <<config, pc, request, effects, answer, owner>>,
         NEW es, es \subseteq Everything(c) \cup {"run"}, tx[k] => "data" \notin es,
         done' = done \cup Record(c, k, es),
         \/ session'[k] = session[k]
         \/ "use" \in Everything(c) /\ "run" \in es,
         \A j \in Conns : j # k => Untouched(j) /\ session'[j] = session[j],
         Owned(k, c)' /\ Recorded(k, c)' /\ Marks(k)'
  PROVE  IInv'
<1>1. TypeOK /\ CallOK(c) /\ Owned(k, c) /\ Recorded(k, c)
  BY Ownership DEF IInv
<1>2. \A w : w \in done' <=> w \in done \/ w \in Record(c, k, es)
  OBVIOUS
<1>3. \A w \in Record(c, k, es) :
        w.call = c /\ w.in = session[k] /\ w.effect \in es /\ w.effect \in {"data", "outside", "run"}
  BY DEF Record
<1>4. "run" \in es => \E w \in Record(c, k, es) : w.call = c /\ w.effect = "run"
  <2> SUFFICES ASSUME "run" \in es PROVE \E w \in Record(c, k, es) : w.call = c /\ w.effect = "run"
    OBVIOUS
  <2>1. [call |-> c, in |-> session[k], effect |-> "run"] \in Record(c, k, es)
    BY Zenon DEF Record
  <2>2. QED BY <2>1
<1>5. \A d : Kept(d)
  BY DEF Kept
<1>6. \A d \in Calls : d # c => SameHistory(d)
  BY <1>2, <1>3 DEF SameHistory
<1>7. \A d \in Calls : d # c => CallOK(d)'
  BY <1>5, <1>6, CallFrame DEF IInv
<1>8. DidNothing(c) /\ answer[c] \in {"none", "timeout"} /\ pc[c] \in {"run", "done"}
  BY <1>1 DEF Owned, Recorded, TypeOK
<1>9. /\ Everything(c)' = Everything(c) /\ ReadsOnly(c)' = ReadsOnly(c) /\ TargetDb(c)' = TargetDb(c)
      /\ Protected(c)' = Protected(c) /\ Callable' = Callable
      /\ (MaySet(c)' <=> MaySet(c)) /\ (MayBegin(c)' <=> MayBegin(c))
  BY CallFixed, ConfigFixed
<1>10. CallOK(c)'
  BY <1>1, <1>8, <1>9 DEF CallOK
<1>11. ConnOK(k)'
  BY CallsAssumption DEF ConnOK
<1>12. ASSUME NEW j \in Conns, j # k PROVE ConnOK(j)'
  <2>1. owner[j] # NoCall => owner[j] \in Calls /\ owner[j] # c
    BY <1>1, <1>12, Ownership DEF TypeOK
  <2>2. Lasting
    BY DEF Lasting
  <2>3. QED BY <1>1, <1>5, <1>6, <1>12, <2>1, <2>2, ConnFrame DEF IInv
<1>13. Moved => Moved'
  BY DoneFrame
<1>14. Sessions'
  <2>1. CASE session'[k] = session[k]
    BY <1>13, <2>1 DEF IInv, Sessions
  <2>2. CASE "use" \in Everything(c) /\ "run" \in es
    <3>1. PICK w \in Record(c, k, es) : w.call = c /\ w.effect = "run"
      BY <1>4, <2>2
    <3>2. w \in done' /\ "use" \in Everything(w.call)' /\ config'.backend = "mysql"
      BY <1>1, <1>2, <1>9, <2>2, <3>1 DEF CallOK
    <3>3. Moved'
      BY <3>1, <3>2 DEF Moved
    <3>4. QED BY <1>13, <3>3 DEF IInv, Sessions
  <2>3. QED BY <2>1, <2>2
<1>15. ReadsChangeNothing'
  <2>1. \A w \in done : w.effect # "run" =>
          LET tool == ToolOf(request[w.call].tool)' IN
            ~config.readOnly /\ (tool.hints.readOnly => tool.name = "explainQuery")
    BY DoneFrame DEF IInv, ReadsChangeNothing
  <2> DEFINE call == request[c].tool
             tool == ToolOf(call)
  <2>2. ASSUME NEW w \in Record(c, k, es), w.effect # "run"
        PROVE  ~config.readOnly /\ (tool.hints.readOnly => tool.name = "explainQuery")
    <3>1. w.effect \in Everything(c) /\ w.effect \in Effect /\ w.effect \in {"data", "outside"}
      <4>1. w.effect \in Everything(c)
        BY <1>3, <2>2
      <4>2. w.effect \in Effect
        BY <1>2, <2>2 DEF TypeOK
      <4>3. QED BY <1>3, <4>1, <4>2 DEF Effect
    <3>2. ~Protected(c)
      BY <1>1, <1>3, <3>1 DEF CallOK, Owned
    <3>3. call \in Callable /\ call # "readQuery" /\ ~config.readOnly
      BY <1>1, <1>8, <3>2 DEF CallOK, Protected
    <3>4. call \in {"explainQuery", "writeQuery", "dropTable", "analyzeQuery"}
      BY <1>1, <3>3, CallFacts DEF QueryCalls, TypeOK
    <3>5. /\ tool.name = IF call = "analyzeQuery" THEN "explainQuery" ELSE call
          /\ call \in {"writeQuery", "dropTable"} => ~tool.hints.readOnly
      BY <1>1, <3>3, CallFacts DEF TypeOK
    <3> HIDE DEF tool, call
    <3>6. QED BY <3>3, <3>4, <3>5
  <2>3. \A w \in Record(c, k, es) : ToolOf(request[w.call].tool)' = tool
    BY <1>3, ConfigFixed
  <2> HIDE DEF tool, call
  <2>4. QED BY <1>2, <2>1, <2>2, <2>3 DEF ReadsChangeNothing
<1>16. RunsInNamedDatabase'
  <2>1. \A w \in done : /\ TargetDb(w.call)' = TargetDb(w.call) /\ Everything(w.call)' = Everything(w.call)
    BY DoneFrame
  <2>2. ASSUME NEW w \in done, w.effect = "run"
        PROVE  \/ w.in = TargetDb(w.call)'
               \/ /\ config.backend = "mysql"
                  /\ \E v \in done : v.call # w.call /\ v.effect = "run" /\ "use" \in Everything(v.call)'
    BY <2>1, <2>2 DEF IInv, RunsInNamedDatabase, Everything
  <2>3. ASSUME NEW w \in Record(c, k, es)
        PROVE  \/ w.in = TargetDb(w.call)'
               \/ /\ config.backend = "mysql"
                  /\ \E v \in done : v.call # w.call /\ v.effect = "run" /\ "use" \in Everything(v.call)'
    <3>1. w.call = c /\ w.in = session[k] /\ Home[k] = TargetDb(c)
      BY <1>1, <1>3 DEF Owned
    <3>2. CASE session[k] = Home[k]
      BY <1>9, <3>1, <3>2
    <3>3. CASE Moved
      BY <1>8, <2>1, <3>1, <3>3 DEF Moved, DidNothing
    <3>4. QED BY <3>2, <3>3 DEF IInv, Sessions
  <2>4. QED BY <1>2, <2>2, <2>3 DEF RunsInNamedDatabase, Everything
<1>17. OneEach'
  BY DEF IInv, OneEach
<1>18. QED BY <1>7, <1>10, <1>11, <1>12, <1>14, <1>15, <1>16, <1>17 DEF IInv

(* What a call has done after some of its statements is part of what all   *)
(* of them do.                                                             *)
LEMMA DoingFacts ==
  ASSUME TypeOK, NEW c \in Calls
  PROVE  /\ Everything(c) \subseteq Effect
         /\ Doing(c, 0) = {}
         /\ \A i \in 0..Len(effects[c]) : Doing(c, i) \subseteq Everything(c)
<1>1. effects[c] \in Seq(SUBSET Effect)
  BY DEF TypeOK
<1>2. \A i \in 1..Len(effects[c]) : effects[c][i] \in SUBSET Effect
  BY <1>1
<1>3. QED BY <1>1, <1>2 DEF Everything, Doing

(* A statement leaves a setting, a transaction, or what a roll-back will   *)
(* restore, only as its call may: a read's are in its transaction.         *)
LEMMA LeavesMarks ==
  ASSUME TypeOK, NEW c \in Calls, NEW k \in Conns, owner[k] = c, sent[k] = "statement",
         CallOK(c), Owned(k, c), Marks(k), UNCHANGED <<config, pc, request, tx>>,
         config.backend \in {"mysql", "postgres", "sqlite"},
         NEW v \in Calls \cup {NoCall}, setting' = [setting EXCEPT ![k] = v],
         v \in {setting[k], Restored(k)} \/ (v = c /\ "setting" \in Everything(c)),
         NEW o \in Calls \cup {NoCall}, open' = [open EXCEPT ![k] = o],
         o \in {open[k], NoCall} \/ (o = c /\ "begin" \in Everything(c)),
         NEW r \in Calls \cup {NoCall}, saved' = [saved EXCEPT ![k] = r],
         r = saved[k] \/ (r = setting[k] /\ "begin" \in Everything(c))
  PROVE  Marks(k)'
<1>1. setting'[k] = v /\ open'[k] = o /\ saved'[k] = r
  BY DEF TypeOK
<1>2. pc[c] # "idle"
  BY DEF Owned
<1>3. "setting" \in Everything(c) => MaySet(c) \/ (tx[k] /\ config.backend = "postgres")
  BY DEF CallOK, Owned, MaySet
<1>4. "begin" \in Everything(c) => MayBegin(c) /\ ~tx[k]
  <2>1. MayBegin(c) => ~ReadsOnly(c)
    BY <1>2, PlanFacts DEF MayBegin, ReadsOnly, ReadOnlyTransaction, CallOK, TypeOK
  <2>2. QED BY <2>1 DEF CallOK, Owned
<1>5. /\ v # NoCall => pc[v] # "idle" /\ (MaySet(v) \/ (tx[k] /\ config.backend = "postgres"))
      /\ o # NoCall => pc[o] # "idle" /\ MayBegin(o)
      /\ r # NoCall => pc[r] # "idle" /\ MaySet(r)
  BY <1>2, <1>3, <1>4 DEF Marks, Restored
<1>6. QED BY <1>1, <1>5 DEF Marks, MaySet, MayBegin

(* The server executes the command that is in flight, whoever waits for    *)
(* it: this is the one step that adds to the history.                      *)
LEMMA ExecuteKeeps ==
  ASSUME IInv, NEW k \in Conns, Execute(k)
  PROVE  IInv'
<1>0. sent[k] # "none" /\ TypeOK /\ ConnOK(k)
  BY DEF IInv, Execute, Begin, Rollback, Run, Fails
<1>1. PICK c \in Calls : owner[k] = c
  BY <1>0 DEF TypeOK, ConnOK, Resting
<1>2. TypeOK /\ CallOK(c) /\ Owned(k, c) /\ Recorded(k, c) /\ sent[k] # "none"
  BY <1>0, <1>1, Ownership DEF IInv
<1>3. UNCHANGED <<config, pc, request, effects, answer, owner, guard>> /\ sent' = [sent EXCEPT ![k] = "none"]
  BY DEF Execute, callVars
<1>4. \A d : Kept(d)
  BY <1>3 DEF Kept
<1>5. Begin(k) \/ Rollback(k) \/ Run(k, c) \/ Fails(k, c)
  BY <1>1 DEF Execute
<1>6. config.backend \in {"mysql", "postgres", "sqlite"} /\ Marks(k)
  BY <1>2, ConfigFacts DEF IInv, TypeOK, ConnOK
<1>7. Restored(k) \in Calls \cup {NoCall}
  BY <1>2 DEF Restored, TypeOK
<1>8. /\ ReadsOnly(c)' = ReadsOnly(c) /\ TargetDb(c)' = TargetDb(c) /\ AllOrNothing(c)' = AllOrNothing(c)
  BY <1>3, CallFixed
<1>9. ASSUME NEW es, es \subseteq Effect \cup {"run"}, done' = done \cup Record(c, k, es)
      PROVE  done' \in SUBSET [call : Calls, in : Dbs, effect : Effect \cup {"run"}]
  BY <1>2, <1>9 DEF Record, TypeOK
<1>10. CASE Begin(k)
  <2>1. \/ /\ tx' = [tx EXCEPT ![k] = TRUE] /\ reply' = [reply EXCEPT ![k] = "ok"]
           /\ saved' = [saved EXCEPT ![k] = IF open[k] = NoCall THEN setting[k] ELSE saved[k]]
           /\ \E o \in {open[k], NoCall} : open' = [open EXCEPT ![k] = o]
        \/ reply' = [reply EXCEPT ![k] = "error"] /\ UNCHANGED <<tx, saved, open>>
    BY <1>10, Zenon DEF Begin
  <2>2. sent[k] = "begin" /\ UNCHANGED <<session, setting, done>>
    BY <1>10 DEF Begin
  <2>3. TypeOK'
    <3>1. saved' \in [Conns -> Calls \cup {NoCall}] /\ open' \in [Conns -> Calls \cup {NoCall}]
      <4>1. saved' = [saved EXCEPT ![k] = IF open[k] = NoCall THEN setting[k] ELSE saved[k]] \/ saved' = saved
        BY <2>1
      <4>2. saved' \in [Conns -> Calls \cup {NoCall}]
        BY <1>2, <4>1 DEF TypeOK
      <4>3. \E o \in {open[k], NoCall} : open' = [open EXCEPT ![k] = o] \/ open' = open
        BY <2>1
      <4>4. open' \in [Conns -> Calls \cup {NoCall}]
        BY <1>2, <4>3 DEF TypeOK
      <4>5. QED BY <4>2, <4>4
    <3>2. tx' \in [Conns -> BOOLEAN] /\ reply' \in [Conns -> {"none", "ok", "error"}]
      BY <1>2, <2>1 DEF TypeOK
    <3>3. QED BY <1>2, <1>3, <2>2, <3>1, <3>2 DEF TypeOK
  <2>4. CallOK(c)' /\ pc'[c] # "idle"
    BY <1>2, <1>3, <2>2, SameCall DEF CallOK, Owned
  <2>5. Owned(k, c)'
    BY <1>2, <1>3, <2>1, <2>2, SameCall DEF Owned, TypeOK
  <2>6. Recorded(k, c)'
    BY <1>2, <1>3, <2>1, <2>2, SameCall DEF Recorded, Owned, TypeOK
  <2>7. Marks(k)'
    BY <1>2, <1>3, <1>6, <2>1, <2>2 DEF Marks, MaySet, MayBegin, Owned, TypeOK
  <2>8. \A j \in Conns : j # k => Untouched(j)
    BY <1>2, <1>3, <2>1, <2>2 DEF Untouched, TypeOK
  <2>9. QED BY <1>1, <1>3, <1>4, <2>2, <2>3, <2>4, <2>5, <2>6, <2>7, <2>8, CallStep
<1>11. CASE Rollback(k)
  <2>1. /\ sent[k] = "rollback" /\ tx' = [tx EXCEPT ![k] = FALSE]
        /\ setting' = [setting EXCEPT ![k] = Restored(k)] /\ reply' = [reply EXCEPT ![k] = "ok"]
        /\ open' = [open EXCEPT ![k] = IF config.backend = "postgres" THEN NoCall ELSE open[k]]
        /\ UNCHANGED <<session, saved, done>>
    BY <1>11 DEF Rollback
  <2>2. TypeOK'
    BY <1>2, <1>3, <1>7, <2>1 DEF TypeOK
  <2>3. CallOK(c)' /\ pc'[c] # "idle"
    BY <1>2, <1>3, <2>1, SameCall DEF CallOK, Owned
  <2>4. Owned(k, c)'
    BY <1>2, <1>3, <2>1, SameCall DEF Owned, TypeOK
  <2>5. Recorded(k, c)'
    BY <1>2, <1>3, <2>1, SameCall DEF Recorded, Owned, TypeOK
  <2>6. Marks(k)'
    BY <1>2, <1>3, <1>6, <2>1 DEF Marks, MaySet, MayBegin, Restored, TypeOK
  <2>7. \A j \in Conns : j # k => Untouched(j)
    BY <1>2, <1>3, <2>1 DEF Untouched, TypeOK
  <2>8. QED BY <1>1, <1>3, <1>4, <2>1, <2>2, <2>3, <2>4, <2>5, <2>6, <2>7, CallStep
<1>12. CASE Run(k, c)
  <2> DEFINE es == Everything(c) \cup {"run"}
  <2>1. /\ sent[k] = "statement" /\ UNCHANGED tx /\ done' = done \cup Record(c, k, es)
        /\ reply' = [reply EXCEPT ![k] = "ok"] /\ (tx[k] => "data" \notin es)
    BY <1>12 DEF Run, Rejected, Everything
  <2>2. PICK d \in Dbs : /\ session' = [session EXCEPT ![k] = d]
                         /\ "use" \in Everything(c) \/ d = session[k]
    BY <1>2, <1>12 DEF Run, Everything, TypeOK
  <2>3. PICK v \in Calls \cup {NoCall} :
          /\ setting' = [setting EXCEPT ![k] = v]
          /\ v \in {setting[k], Restored(k)} \/ (v = c /\ "setting" \in Everything(c))
    BY <1>2, <1>7, <1>12 DEF Run, Everything, TypeOK
  <2>4. PICK o \in Calls \cup {NoCall} :
          /\ open' = [open EXCEPT ![k] = o]
          /\ o \in {open[k], NoCall} \/ (o = c /\ "begin" \in Everything(c))
    BY <1>2, <1>12 DEF Run, Left, Everything, TypeOK
  <2>5. PICK r \in Calls \cup {NoCall} :
          /\ saved' = [saved EXCEPT ![k] = r]
          /\ r = saved[k] \/ (r = setting[k] /\ "begin" \in Everything(c))
    BY <1>2, <1>12 DEF Run, Everything, TypeOK
  <2>6. TypeOK'
    <3>1. done' \in SUBSET [call : Calls, in : Dbs, effect : Effect \cup {"run"}]
      <4>1. es \subseteq Effect \cup {"run"}
        BY <1>2, DoingFacts
      <4>2. QED BY <1>9, <2>1, <4>1
    <3> HIDE DEF es
    <3>2. QED BY <1>2, <1>3, <2>1, <2>2, <2>3, <2>4, <2>5, <3>1 DEF TypeOK
  <2>7. Owned(k, c)'
    BY <1>2, <1>3, <1>8, <2>1 DEF Owned, CallOK, TypeOK
  <2>8. Did(c, "run")'
    <3>1. [call |-> c, in |-> session[k], effect |-> "run"] \in Record(c, k, es)
      BY Zenon DEF Record
    <3>2. [call |-> c, in |-> session[k], effect |-> "run"] \in done'
      BY <2>1, <3>1
    <3>3. QED BY <3>2 DEF Did
  <2>9. Recorded(k, c)'
    BY <1>2, <1>3, <2>1, <2>8 DEF Recorded, Owned, TypeOK
  <2> HIDE DEF es
  <2>10. Marks(k)'
    BY <1>1, <1>2, <1>3, <1>6, <2>1, <2>2, <2>3, <2>4, <2>5, LeavesMarks
  <2>11. \A j \in Conns : j # k => Untouched(j) /\ session'[j] = session[j]
    BY <1>2, <1>3, <2>1, <2>2, <2>3, <2>4, <2>5 DEF Untouched, TypeOK
  <2>12. session'[k] = session[k] \/ ("use" \in Everything(c) /\ "run" \in es)
    BY <1>2, <2>2 DEF TypeOK, es
  <2>13. es \subseteq Everything(c) \cup {"run"}
    BY DEF es
  <2>14. QED BY <1>1, <1>3, <2>1, <2>6, <2>7, <2>9, <2>10, <2>11, <2>12, <2>13, StatementStep
<1>13. CASE Fails(k, c)
  <2> DEFINE n == Len(effects[c])
             pg == config.backend = "postgres"
             Undone(i) == Rejected(k, c) \/ (pg /\ "end" \notin Doing(c, i))
             Reached(i) == IF Rejected(k, c) THEN Doing(c, n) ELSE Doing(c, i)
             Stays(i) == IF Undone(i) THEN Reached(i) \cap {"outside"} ELSE Reached(i)
  <2>1. /\ sent[k] = "statement" /\ UNCHANGED <<tx, session>> /\ reply' = [reply EXCEPT ![k] = "error"]
    BY <1>13 DEF Fails
  <2>2. PICK i \in {0} \cup 1..(n - 1) :
          /\ done' = done \cup Record(c, k, Stays(i))
          /\ \E o \in Left(c, i, open[k]) \cup (IF pg THEN {} ELSE {NoCall}) : open' = [open EXCEPT ![k] = o]
          /\ saved' = [saved EXCEPT ![k] = IF "begin" \in Doing(c, i) /\ open[k] = NoCall THEN setting[k] ELSE saved[k]]
    BY <1>13, Zenon DEF Fails
  <2>3. n \in Nat /\ i \in 0..n /\ (n < 2 => i = 0)
    BY <1>2 DEF TypeOK
  <2>4. Doing(c, i) \subseteq Everything(c) /\ Doing(c, n) = Everything(c) /\ Everything(c) \subseteq Effect /\ Doing(c, 0) = {}
    BY <1>2, <2>3, DoingFacts DEF Everything
  <2>5. PICK v \in Calls \cup {NoCall} :
          /\ setting' = [setting EXCEPT ![k] = v]
          /\ v \in {setting[k], Restored(k)} \/ (v = c /\ "setting" \in Everything(c))
    BY <1>2, <2>4, <1>13 DEF Fails, TypeOK
  <2>6. PICK o \in Calls \cup {NoCall} :
          /\ open' = [open EXCEPT ![k] = o]
          /\ o \in {open[k], NoCall} \/ (o = c /\ "begin" \in Everything(c))
    BY <1>2, <2>2, <2>4 DEF Left, TypeOK
  <2>7. PICK r \in Calls \cup {NoCall} :
          /\ saved' = [saved EXCEPT ![k] = r]
          /\ r = saved[k] \/ (r = setting[k] /\ "begin" \in Everything(c))
    BY <1>2, <2>2, <2>4 DEF TypeOK
  <2>8. /\ Stays(i) \subseteq Everything(c)
        /\ tx[k] => "data" \notin Stays(i)
        /\ AllOrNothing(c) => "data" \notin Stays(i)
    <3>1. Stays(i) \subseteq Everything(c)
      BY <2>4
    <3>2. tx[k] => "data" \notin Stays(i)
      BY <2>4 DEF Rejected
    <3>3. ASSUME AllOrNothing(c) PROVE "data" \notin Stays(i)
      <4>1. i = 0 \/ (pg /\ "end" \notin Everything(c))
        BY <2>3, <3>3 DEF AllOrNothing, Everything
      <4>2. CASE i = 0
        BY <2>4, <4>2
      <4>3. CASE pg /\ "end" \notin Everything(c)
        BY <2>4, <4>3
      <4>4. QED BY <4>1, <4>2, <4>3
    <3>4. QED BY <3>1, <3>2, <3>3
  <2> HIDE DEF Stays
  <2>9. PICK es : /\ done' = done \cup Record(c, k, es) /\ es \subseteq Everything(c) \cup {"run"}
                  /\ es \subseteq Effect \cup {"run"}
                  /\ tx[k] => "data" \notin es
                  /\ AllOrNothing(c) => "data" \notin es
    BY <2>2, <2>4, <2>8
  <2>10. TypeOK'
    <3>1. done' \in SUBSET [call : Calls, in : Dbs, effect : Effect \cup {"run"}]
      BY <1>9, <2>9
    <3>2. QED BY <1>2, <1>3, <2>1, <2>5, <2>6, <2>7, <3>1 DEF TypeOK
  <2>11. Owned(k, c)'
    BY <1>2, <1>3, <1>8, <2>1 DEF Owned, TypeOK
  <2>12. DidNothing(c)
    BY <1>2, <2>1 DEF Recorded
  <2>13. AllOrNothing(c) => ~Did(c, "data")'
    BY <2>9, <2>12 DEF Did, DidNothing, Record
  <2>14. Recorded(k, c)'
    BY <1>2, <1>3, <1>8, <2>1, <2>13 DEF Recorded, Owned, TypeOK
  <2>15. Marks(k)'
    BY <1>1, <1>2, <1>3, <1>6, <2>1, <2>5, <2>6, <2>7, LeavesMarks
  <2>16. \A j \in Conns : j # k => Untouched(j) /\ session'[j] = session[j]
    BY <1>2, <1>3, <2>1, <2>5, <2>6, <2>7 DEF Untouched, TypeOK
  <2>17. session'[k] = session[k]
    BY <2>1
  <2>18. QED BY <1>1, <1>3, <2>1, <2>9, <2>10, <2>11, <2>14, <2>15, <2>16, <2>17, StatementStep
<1>14. QED BY <1>5, <1>10, <1>11, <1>12, <1>13

-----------------------------------------------------------------------------
(* The theorems about the specification. *)

(* Every step keeps the inductive invariant.                               *)
LEMMA NextKeeps == IInv /\ [Next]_vars => IInv'
<1> SUFFICES ASSUME IInv, [Next]_vars PROVE IInv'
  OBVIOUS
<1>1. ASSUME NEW c \in Calls, pc[c] = "idle", NEW tool \in Callable, NEW text \in Text,
             NEW db \in Named(tool), Invoke(c, tool, text, db)
      PROVE  IInv'
  BY <1>1, InvokeKeeps
<1>2. ASSUME NEW c \in Calls, NEW k \in Conns, Progress(c, k) PROVE IInv'
  <2>1. CASE Acquire(c, k)
    BY <2>1, AcquireKeeps
  <2>2. CASE Began(c, k)
    BY <2>2, BeganKeeps
  <2>3. CASE Ran(c, k)
    BY <2>3, RanKeeps
  <2>4. CASE RolledBack(c, k)
    BY <2>4, RolledBackKeeps
  <2>5. CASE Failed(c, k)
    BY <2>5, FailedKeeps
  <2>6. QED BY <1>2, <2>1, <2>2, <2>3, <2>4, <2>5 DEF Progress
<1>3. ASSUME NEW c \in Calls, AcquireErr(c) \/ QueryTimeout(c) \/ Redact(c) PROVE IInv'
  BY <1>3, AcquireErrKeeps, QueryTimeoutKeeps, RedactKeeps
<1>4. ASSUME NEW k \in Conns, Execute(k) \/ Return(k) \/ Break(k) PROVE IInv'
  BY <1>4, ExecuteKeeps, ReturnKeeps, BreakKeeps
<1>5. CASE UNCHANGED vars
  <2>1. TypeOK' /\ OneEach'
    BY <1>5 DEF vars, callVars, connVars, sessionVars, IInv, TypeOK, OneEach
  <2>2. \A c : Kept(c)
    BY <1>5 DEF vars, callVars, Kept
  <2>3. \A k \in Conns : Untouched(k) /\ session'[k] = session[k]
    BY <1>5 DEF vars, connVars, sessionVars, Untouched
  <2>4. config' = config /\ done' = done /\ \A c \in Calls : request'[c] = request[c] /\ effects'[c] = effects[c]
    BY <1>5 DEF vars, callVars
  <2>5. QED BY <2>1, <2>2, <2>3, <2>4, StepFrame
<1>6. QED BY <1>1, <1>2, <1>3, <1>4, <1>5 DEF Next

(* Every variable keeps its type, for any calls, connections, databases,   *)
(* configurations and nesting of statements.                               *)
THEOREM TypeCorrect == Spec => []TypeOK
<1>1. IInv => TypeOK
  BY DEF IInv
<1>2. QED BY <1>1, InitIInv, NextKeeps, PTL DEF Spec

(* No tool in read-only mode, and no tool annotated as a read in any mode  *)
(* except explainQuery, changes anything: the statement has passed the     *)
(* validation, and what that cannot see runs in a read-only transaction.   *)
THEOREM ReadsNeverChange == Spec => []ReadsChangeNothing
<1>1. IInv => ReadsChangeNothing
  BY DEF IInv
<1>2. QED BY <1>1, InitIInv, NextKeeps, PTL DEF Spec

(* A connection in its pool is in no read-only transaction, however the    *)
(* call that used it ended; a transaction that is open there was begun by  *)
(* a client's writeQuery, and a setting left by that tool or by ANALYZE,   *)
(* outside read-only mode, or on MySQL.                                    *)
THEOREM ConnectionsReturnClean == Spec => []IdleConnectionsClean
<1>1. IInv => IdleConnectionsClean
  BY DEF IInv, IdleConnectionsClean, ConnOK, Resting, Marks, MaySet, MayBegin
<1>2. QED BY <1>1, InitIInv, NextKeeps, PTL DEF Spec

(* A refusal, a failure and a success each say truly what was done.        *)
THEOREM AnswersAreTrue == Spec => []AnswersTellTheEffect
<1>1. IInv => AnswersTellTheEffect
  <2> SUFFICES ASSUME IInv, NEW c \in Calls
               PROVE  LET did == {w.effect : w \in {v \in done : v.call = c}}
                      IN /\ answer[c] = "refused" => did = {}
                         /\ answer[c] = "query" /\ AllOrNothing(c) => "data" \notin did
                         /\ answer[c] = "ok" => "run" \in did
    BY DEF AnswersTellTheEffect
  <2>1. CallOK(c)
    BY DEF IInv
  <2>2. QED BY <2>1 DEF CallOK, DidNothing, Did
<1>2. QED BY <1>1, InitIInv, NextKeeps, PTL DEF Spec

(* A statement runs in the database its call names, unless an earlier USE  *)
(* of MySQL has moved the connection.                                      *)
THEOREM NamedDatabaseUsed == Spec => []RunsInNamedDatabase
<1>1. IInv => RunsInNamedDatabase
  BY DEF IInv
<1>2. QED BY <1>1, InitIInv, NextKeeps, PTL DEF Spec
=============================================================================
