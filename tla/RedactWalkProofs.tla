--------------------------- MODULE RedactWalkProofs ---------------------------
(***************************************************************************)
(* What the walk of RedactWalk promises for every payload: whatever its    *)
(* nesting, its keys and its texts, every leaf is judged once, in the      *)
(* context of its own key path.                                            *)
(***************************************************************************)
EXTENDS RedactWalk, FiniteSetTheorems, SequenceTheorems, WellFoundedInduction, TLAPS

-----------------------------------------------------------------------------
(* Induction over the naturals in a form that first-order provers can use: *)
(* with a set where the library's theorems have a predicate.               *)

(* Some well-founded relation on the naturals has every n < m in it. *)
LEMMA LessWellFounded ==
  \E R : IsWellFoundedOn(R, Nat) /\ \A m, n \in Nat : m < n => <<m, n>> \in R
<1>1. \A m, n \in Nat : m < n => <<m, n>> \in OpToRel(<, Nat)
  BY DEF OpToRel
<1>2. IsWellFoundedOn(OpToRel(<, Nat), Nat)
  BY NatLessThanWellFounded
<1>3. QED BY <1>1, <1>2, Zenon

(* A set of naturals that is not empty has a least element. *)
LEMMA LeastElement ==
  ASSUME NEW S, S \subseteq Nat, S # {}
  PROVE  \E m \in S : \A n \in S : m <= n
<1>1. PICK R : IsWellFoundedOn(R, Nat) /\ \A m, n \in Nat : m < n => <<m, n>> \in R
  BY LessWellFounded
<1>2. IsWellFoundedOn(R, Nat)
  BY <1>1
<1>3. \E m \in S : \A n \in S : ~ (<<n, m>> \in R)
  BY <1>2, WFMin, Zenon
<1>4. PICK m \in S : \A n \in S : ~ (<<n, m>> \in R)
  BY <1>3
<1>5. ASSUME NEW n \in S PROVE m <= n
  <2>1. m \in Nat /\ n \in Nat
    OBVIOUS
  <2>2. ~(n < m)
    BY <2>1, <1>1, <1>4, Zenon
  <2>3. QED BY <2>1, <2>2
<1>6. QED BY <1>5

(* A set that holds 0 and the successor of each of its naturals holds all. *)
LEMMA SetInduction ==
  ASSUME NEW S, 0 \in S, \A n \in Nat : n \in S => n + 1 \in S
  PROVE  Nat \subseteq S
<1> SUFFICES ASSUME Nat \ S # {} PROVE FALSE
  OBVIOUS
<1>1. PICK m \in Nat \ S : \A n \in Nat \ S : m <= n
  <2> DEFINE T == Nat \ S
  <2>1. T \subseteq Nat /\ T # {}
    OBVIOUS
  <2>2. QED BY <2>1, LeastElement
<1>2. m - 1 \in Nat /\ m - 1 + 1 = m
  OBVIOUS
<1>3. m - 1 \in S
  BY <1>1, <1>2
<1>4. QED BY <1>1, <1>2, <1>3

-----------------------------------------------------------------------------
(* The payload. *)

(* A value that stands in another has that one as its parent.              *)
LEMMA ParentIs ==
  ASSUME NEW p \in Payloads, NEW x \in Nodes, NEW y \in ChildrenOf(p, x)
  PROVE  y \in Nodes /\ IsChild(p, y) /\ ParentOf(p, y) = x /\ x < y
<1>1. p.kids \in [Nodes -> Seq(Nodes)]
  BY PayloadAssumption
<1>2. y \in Nodes
  BY <1>1 DEF ChildrenOf
<1>3. \A z \in Nodes : y \in ChildrenOf(p, z) => z = x
  BY TreeAssumption DEF ChildrenOf
<1>4. ParentOf(p, y) \in Nodes /\ y \in ChildrenOf(p, ParentOf(p, y))
  BY DEF ParentOf
<1>5. QED BY <1>2, <1>3, <1>4, TreeAssumption DEF IsChild

(* The key path is a recursion over the enclosing values that can be       *)
(* unfolded.                                                               *)
LEMMA KeyPathsDef ==
  ASSUME NEW p \in Payloads
  PROVE  KeyPaths(p) =
           [y \in Nodes |->
              IF ~IsChild(p, y) THEN <<>>
              ELSE KeyPaths(p)[ParentOf(p, y)]
                   \o (IF p.kind[ParentOf(p, y)] = "object" THEN Words[p.key[y]] ELSE <<>>)]
<1> USE SizeAssumption DEF Nodes
<1> DEFINE Own(y) == IF p.kind[ParentOf(p, y)] = "object" THEN Words[p.key[y]] ELSE <<>>
           Body(f, y) == IF ~IsChild(p, y) THEN <<>> ELSE f[ParentOf(p, y)] \o Own(y)
           Upto(n) == {y \in Nodes : y < n}
           Defines(f, S) == f = [y \in S |-> Body(f, y)]
           Defined == {n \in Nat : \E f : Defines(f, Upto(n))}
<1>0. \A y \in Nodes : IsChild(p, y) => ParentOf(p, y) \in Nodes /\ ParentOf(p, y) < y
  BY ParentIs DEF IsChild
<1>1. 0 \in Defined
  <2> DEFINE f == [y \in {} |-> <<>>]
  <2>1. Upto(0) = {}
    OBVIOUS
  <2>2. Defines(f, {})
    OBVIOUS
  <2> HIDE DEF f, Defines, Upto
  <2>3. QED BY <2>1, <2>2
<1>2. ASSUME NEW n \in Nat, n \in Defined PROVE n + 1 \in Defined
  <2>1. PICK f : Defines(f, Upto(n))
    BY <1>2
  <2> DEFINE g == [y \in Upto(n + 1) |-> Body(f, y)]
  <2>2. Upto(n) \subseteq Upto(n + 1)
    OBVIOUS
  <2>3. \A y \in Upto(n) : g[y] = f[y]
    <3> HIDE DEF Body, Upto
    <3>1. QED BY <2>1, <2>2
  <2>4. ASSUME NEW y \in Upto(n + 1) PROVE Body(f, y) = Body(g, y)
    <3>1. IsChild(p, y) => ParentOf(p, y) \in Upto(n)
      BY <1>0
    <3>2. IsChild(p, y) => f[ParentOf(p, y)] = g[ParentOf(p, y)]
      BY <2>3, <3>1
    <3> HIDE DEF g, Own
    <3>3. QED BY <3>2
  <2>5. Defines(g, Upto(n + 1))
    <3> HIDE DEF Body, Upto
    <3>1. QED BY <2>4
  <2> HIDE DEF g, Defines, Upto
  <2>6. QED BY <2>5
<1>3. Nodes = Upto(Size + 1) /\ Size + 1 \in Nat
  OBVIOUS
<1>4. PICK f : Defines(f, Nodes)
  <2>1. Size + 1 \in Defined
    <3> HIDE DEF Defined
    <3>1. QED BY <1>1, <1>2, <1>3, SetInduction
  <2> HIDE DEF Upto, Defines
  <2>2. QED BY <1>3, <2>1
<1>5. Defines(KeyPaths(p), Nodes)
  BY <1>4, Zenon DEF KeyPaths
<1>6. QED BY <1>5

KeyWords(f) == IF f.type = "keyed" THEN Words[payload.key[f.node]] ELSE <<>>

(* What a child adds to the key path of the value it stands in.            *)
LEMMA KeyPathStep ==
  ASSUME payload \in Payloads, NEW x \in Nodes, NEW y \in ChildrenOf(payload, x)
  PROVE  KeyPath(payload, y) =
           KeyPath(payload, x) \o (IF payload.kind[x] = "object" THEN Words[payload.key[y]] ELSE <<>>)
<1>1. y \in Nodes /\ IsChild(payload, y) /\ ParentOf(payload, y) = x
  BY ParentIs
<1> DEFINE p == payload
           F(z) == IF ~IsChild(p, z) THEN <<>>
                   ELSE KeyPaths(p)[ParentOf(p, z)]
                        \o (IF p.kind[ParentOf(p, z)] = "object" THEN Words[p.key[z]] ELSE <<>>)
<1>2. KeyPaths(p) = [z \in Nodes |-> F(z)]
  BY KeyPathsDef
<1>3. KeyPaths(p)[y] = F(y)
  <2> HIDE DEF F, p
  <2>1. QED BY <1>1, <1>2
<1>4. QED BY <1>1, <1>3 DEF KeyPath

(* A row has no keys around it. *)
LEMMA KeyPathRow ==
  ASSUME payload \in Payloads, NEW x \in Nodes, IsRow(payload, x)
  PROVE  KeyPath(payload, x) = <<>>
<1>1. ~IsChild(payload, x)
  BY TreeAssumption DEF IsChild
<1> DEFINE p == payload
           F(z) == IF ~IsChild(p, z) THEN <<>>
                   ELSE KeyPaths(p)[ParentOf(p, z)]
                        \o (IF p.kind[ParentOf(p, z)] = "object" THEN Words[p.key[z]] ELSE <<>>)
<1>2. KeyPaths(p) = [z \in Nodes |-> F(z)]
  BY KeyPathsDef
<1>3. KeyPaths(p)[x] = F(x)
  <2> HIDE DEF F, p
  <2>1. QED BY <1>2
<1>4. QED BY <1>1, <1>3 DEF KeyPath

-----------------------------------------------------------------------------
(* The invariants of the walk. *)

IsNode(i) == stack[i].type # "pop"
OnStack(x) == \E i \in DOMAIN stack : IsNode(i) /\ stack[i].node = x

(* What the path is when each frame comes to the top: a frame that pops    *)
(* finds what it pops, and a value the path to what it stands in.          *)
Contexts(c) ==
  /\ c \in [0..Len(stack) -> Seq(Word)] /\ c[Len(stack)] = path
  /\ \A i \in 1..Len(stack) :
       IF IsNode(i) THEN c[i - 1] = c[i] /\ c[i] \o KeyWords(stack[i]) = KeyPath(payload, stack[i].node)
       ELSE stack[i].n <= Len(c[i]) /\ c[i - 1] = SubSeq(c[i], 1, Len(c[i]) - stack[i].n)
ContextsInv == stage = "walk" => \E c : Contexts(c)

(* The values that have been visited: they and those on the stack hold     *)
(* every row and every child of a visited value, each once.                *)
Placed(x, S) == IsRow(payload, x) \/ \E z \in S : x \in ChildrenOf(payload, z)
Seen(S) ==
  /\ S \subseteq Nodes
  /\ \A x \in S : Placed(x, S)
  /\ \A i \in DOMAIN stack : IsNode(i) => stack[i].node \notin S /\ Placed(stack[i].node, S)
  /\ \A i, j \in DOMAIN stack : IsNode(i) /\ IsNode(j) /\ stack[i].node = stack[j].node => i = j
  /\ \A x \in Nodes : Placed(x, S) => x \in S \/ OnStack(x)

Judged(x) == IF RegexHits(text[x], KeyPath(payload, x)) THEN Rewritten ELSE text[x]
SlotNodes == {slots[k].node : k \in DOMAIN slots}

(* What has become of the visited leaves.                                  *)
Handled(S) ==
  /\ scanned = Cardinality(S \cap Leaves(payload))
  /\ \A x \in Leaves(payload) \ S : value[x] = text[x]
  /\ ~ner => \A x \in S \cap Leaves(payload) : value[x] = Judged(x)
  /\ ner => SlotNodes = S \cap Leaves(payload) /\ \A x \in S \cap Leaves(payload) : value[x] = Empty
SeenInv == stage = "walk" => \E S \in SUBSET Nodes : Seen(S) /\ Handled(S)

(* The deferred leaves keep their text and what the patterns found in it.  *)
SlotsInv ==
  /\ ~ner => slots = <<>>
  /\ \A k \in DOMAIN slots :
       /\ slots[k].node \in Leaves(payload) /\ slots[k].text = text[slots[k].node]
       /\ slots[k].regex = RegexHits(text[slots[k].node], KeyPath(payload, slots[k].node))
  /\ \A j, k \in DOMAIN slots : slots[j].node = slots[k].node => j = k

(* Before the batch the model has found nothing, and what it then finds is *)
(* known both by slot and by leaf.                                         *)
FoundInv ==
  /\ stage \in {"walk", "tokenize"} => found = {}
  /\ stage = "walk" => at = 0 /\ windows = <<>>
  /\ ~ner => found = {}
  /\ stage \in {"tokenize", "infer", "merge"} =>
       /\ ner /\ SlotNodes = Leaves(payload) /\ Len(results) = Len(slots)
       /\ \A k \in DOMAIN slots : results[k] <=> slots[k].node \in found
       /\ scanned = Cardinality(Leaves(payload))
  /\ stage \in {"tokenize", "infer"} => \A x \in Leaves(payload) : value[x] = Empty
  /\ stage = "infer" => at = 0
  /\ stage = "merge" =>
       \A k \in DOMAIN slots : value[slots[k].node] =
         IF k > at THEN Empty ELSE IF slots[k].regex \/ results[k] THEN Rewritten ELSE slots[k].text

CountInv == response # "error" => total = Cardinality({x \in Leaves(payload) : value[x] = Rewritten})

AnswerInv ==
  /\ response # "none" => stage = "done"
  /\ response = "rows" =>
       /\ \A x \in Leaves(payload) :
            value[x] = IF RegexHits(text[x], KeyPath(payload, x)) \/ x \in found THEN Rewritten ELSE text[x]
       /\ scanned = Cardinality(Leaves(payload))

TextOK == \A x \in Leaves(payload) : text[x] \in Texts[payload.holds]

IInv == TypeOK /\ TextOK /\ ContextsInv /\ SeenInv /\ SlotsInv /\ FoundInv /\ CountInv /\ AnswerInv

-----------------------------------------------------------------------------
(* Visiting a value. *)

(* The sequence operators in the form the steps use them.                  *)
LEMMA Joined ==
  ASSUME NEW A, NEW s \in Seq(A), NEW t \in Seq(A)
  PROVE  /\ s \o t \in Seq(A) /\ Len(s \o t) = Len(s) + Len(t)
         /\ \A i \in 1..Len(s) : (s \o t)[i] = s[i]
         /\ \A j \in 1..Len(t) : (s \o t)[Len(s) + j] = t[j]
         /\ SubSeq(s \o t, 1, Len(s \o t) - Len(t)) = s
<1>1. s \o t \in Seq(A) /\ Len(s \o t) = Len(s) + Len(t)
  OBVIOUS
<1>2. /\ \A i \in 1..Len(s) : (s \o t)[i] = s[i]
      /\ \A j \in 1..Len(t) : (s \o t)[Len(s) + j] = t[j]
  OBVIOUS
<1>3. SubSeq(s \o t, 1, Len(s)) = s
  BY <1>1, <1>2
<1>4. Len(s \o t) - Len(t) = Len(s)
  BY <1>1
<1>5. QED BY <1>1, <1>2, <1>3, <1>4

(* The head of a sequence is a sequence with the same first elements. *)
LEMMA Shortened ==
  ASSUME NEW A, NEW s \in Seq(A), NEW n \in 0..Len(s)
  PROVE  /\ SubSeq(s, 1, n) \in Seq(A) /\ Len(SubSeq(s, 1, n)) = n
         /\ \A i \in 1..n : SubSeq(s, 1, n)[i] = s[i]
OBVIOUS

(* The types of what a payload consists of.                                *)
LEMMA PayloadType ==
  ASSUME payload \in Payloads
  PROVE  /\ payload.rows \in Seq(Nodes) /\ payload.kids \in [Nodes -> Seq(Nodes)]
         /\ \A x \in Nodes : Words[payload.key[x]] \in Seq(Word)
         /\ payload.kind \in [Nodes -> {"string", "object", "array", "scalar"}]
         /\ payload.holds \in DOMAIN Texts
BY PayloadAssumption, WordsAssumption

(* A stack that is not empty has a frame on top and a stack below it. *)
LEMMA TopFrame ==
  ASSUME TypeOK, stack # <<>>
  PROVE  /\ Len(stack) \in Nat \ {0} /\ Top = stack[Len(stack)] /\ Top \in Frame
         /\ Top.type # "pop" => Top.node \in Nodes /\ Top.type \in {"root", "keyed"}
         /\ Rest \in Seq(Frame) /\ Len(Rest) = Len(stack) - 1
         /\ \A i \in 1..(Len(stack) - 1) : Rest[i] = stack[i]
<1>1. stack \in Seq(Frame) /\ Len(stack) \in Nat \ {0}
  BY DEF TypeOK
<1>2. Top = stack[Len(stack)] /\ Top \in Frame
  BY <1>1 DEF Top
<1>3. Top.type # "pop" => Top.node \in Nodes /\ Top.type \in {"root", "keyed"}
  BY <1>2 DEF Frame
<1>4. Len(stack) - 1 \in 0..Len(stack)
  BY <1>1
<1>5. QED BY <1>1, <1>2, <1>3, <1>4, Shortened DEF Rest

(* The frames of the values in a value: one for each, in their order. *)
LEMMA ChildFrames ==
  ASSUME payload \in Payloads, NEW x \in Nodes
  PROVE  /\ Children(x) \in Seq(Frame) /\ Len(Children(x)) = Len(payload.kids[x])
         /\ \A j \in 1..Len(payload.kids[x]) :
              /\ Children(x)[j].node = payload.kids[x][j]
              /\ Children(x)[j].type = IF payload.kind[x] = "object" THEN "keyed" ELSE "root"
<1> DEFINE kids == payload.kids[x]
<1>1. kids \in Seq(Nodes) /\ payload.kind[x] \in {"string", "object", "array", "scalar"}
  BY PayloadType
<1>2. CASE payload.kind[x] = "object"
  <2>1. Children(x) = [k \in DOMAIN kids |-> [type |-> "keyed", node |-> kids[k]]]
    BY <1>2 DEF Children, Image, KeyedChild
  <2> HIDE DEF kids
  <2>2. QED BY <1>1, <1>2, <2>1 DEF Frame, kids
<1>3. CASE payload.kind[x] = "array"
  <2>1. Children(x) = [k \in DOMAIN kids |-> [type |-> "root", node |-> kids[k]]]
    BY <1>3 DEF Children, Image, Root
  <2>2. QED BY <1>1, <1>3, <2>1 DEF Frame
<1>4. CASE payload.kind[x] \in {"string", "scalar"}
  <2>1. Children(x) = <<>> /\ kids = <<>>
    BY <1>4, TreeAssumption DEF Children
  <2>2. QED BY <2>1
<1>5. QED BY <1>1, <1>2, <1>3, <1>4

Restored == IF Top.type = "keyed" THEN 1 ELSE 0

(* What a visit does to the stack: the frame it took makes room for a pop  *)
(* frame, if keys were pushed, and for the values inside.                  *)
LEMMA VisitFrames ==
  ASSUME TypeOK, Visit
  PROVE  /\ stack' \in Seq(Frame) /\ path' \in Seq(Word) /\ path' = path \o KeyWords(Top)
         /\ KeyWords(Top) \in Seq(Word)
         /\ Len(stack') = Len(stack) - 1 + Restored + Len(payload.kids[Top.node])
         /\ \A i \in 1..(Len(stack) - 1) : stack'[i] = stack[i]
         /\ Restored = 1 => stack'[Len(stack)] = Pop(Len(KeyWords(Top)))
         /\ \A j \in 1..Len(payload.kids[Top.node]) :
              /\ stack'[Len(stack) - 1 + Restored + j].node = payload.kids[Top.node][j]
              /\ stack'[Len(stack) - 1 + Restored + j].type =
                   IF payload.kind[Top.node] = "object" THEN "keyed" ELSE "root"
<1> DEFINE x == Top.node
           words == KeyWords(Top)
           restore == IF Top.type = "keyed" THEN <<Pop(Len(words))>> ELSE <<>>
           children == Children(x)
           pushed == restore \o children
<1>1. payload \in Payloads /\ path \in Seq(Word) /\ stack # <<>> /\ Top.type # "pop"
  BY DEF TypeOK, Visit
<1>2. x \in Nodes
  BY <1>1, TopFrame
<1>3. words \in Seq(Word) /\ Len(words) \in Nat
  BY <1>1, <1>2, PayloadType DEF KeyWords
<1>4. path' = path \o words /\ stack' = Rest \o pushed
  BY DEF Visit, Frames, KeyWords
<1>5. path' \in Seq(Word)
  BY <1>1, <1>3, <1>4
<1>6. restore \in Seq(Frame) /\ Len(restore) = Restored /\ (Restored = 1 => restore[1] = Pop(Len(words)))
  <2>1. Pop(Len(words)) \in Frame
    BY <1>3 DEF Frame, Pop
  <2> HIDE DEF words
  <2>2. CASE Top.type = "keyed"
    BY <2>1, <2>2 DEF Restored
  <2>3. CASE Top.type # "keyed"
    BY <2>3 DEF Restored
  <2>4. QED BY <2>2, <2>3
<1>7. /\ children \in Seq(Frame) /\ Len(children) = Len(payload.kids[x])
      /\ \A j \in 1..Len(payload.kids[x]) :
           /\ children[j].node = payload.kids[x][j]
           /\ children[j].type = IF payload.kind[x] = "object" THEN "keyed" ELSE "root"
  BY <1>1, <1>2, ChildFrames
<1>8. Rest \in Seq(Frame) /\ Len(Rest) = Len(stack) - 1 /\ \A i \in 1..(Len(stack) - 1) : Rest[i] = stack[i]
  BY <1>1, TopFrame
<1>9. Restored \in {0, 1}
  BY DEF Restored
<1> HIDE DEF words, restore, children, x, pushed
<1>10. /\ pushed \in Seq(Frame) /\ Len(pushed) = Restored + Len(payload.kids[x])
       /\ Restored = 1 => pushed[1] = restore[1]
       /\ \A j \in 1..Len(children) : pushed[Restored + j] = children[j]
  BY <1>6, <1>7, <1>9, Joined DEF pushed
<1>11. /\ stack' \in Seq(Frame) /\ Len(stack') = Len(Rest) + Len(pushed)
       /\ \A i \in 1..Len(Rest) : stack'[i] = Rest[i]
       /\ \A j \in 1..Len(pushed) : stack'[Len(Rest) + j] = pushed[j]
  <2>1. Rest \in Seq(Frame) /\ pushed \in Seq(Frame) /\ stack' = Rest \o pushed
    BY <1>4, <1>8, <1>10
  <2>2. QED BY <2>1, Joined
<1>12. Len(children) \in Nat /\ Len(stack) - 1 \in Nat
  BY <1>1, <1>7, TopFrame
<1>13. Restored = 1 => stack'[Len(stack)] = Pop(Len(words))
  <2> SUFFICES ASSUME Restored = 1 PROVE stack'[Len(stack)] = Pop(Len(words))
    OBVIOUS
  <2>1. 1 \in 1..Len(pushed) /\ Len(Rest) + 1 = Len(stack)
    BY <1>7, <1>8, <1>10, <1>12
  <2>2. stack'[Len(Rest) + 1] = pushed[1]
    BY <1>11, <2>1
  <2>3. QED BY <1>6, <1>10, <2>1, <2>2
<1>14. \A j \in 1..Len(children) : stack'[Len(stack) - 1 + Restored + j] = children[j]
  <2> TAKE j \in 1..Len(children)
  <2>1. Restored + j \in 1..Len(pushed)
    BY <1>7, <1>9, <1>10, <1>12
  <2>2. stack'[Len(Rest) + (Restored + j)] = pushed[Restored + j]
    BY <1>11, <2>1
  <2>3. Len(Rest) + (Restored + j) = Len(stack) - 1 + Restored + j
    BY <1>8, <1>9, <1>12
  <2>4. QED BY <1>10, <2>2, <2>3
<1>15. Len(stack') = Len(stack) - 1 + Restored + Len(payload.kids[x])
  <2>1. Len(payload.kids[x]) \in Nat
    BY <1>7, <1>12
  <2>2. Len(stack') = Len(Rest) + Len(pushed)
    BY <1>11
  <2>3. Len(Rest) = Len(stack) - 1 /\ Len(pushed) = Restored + Len(payload.kids[x])
    BY <1>8, <1>10
  <2>4. \A a, b, c \in Nat : a + (b + c) = a + b + c
    OBVIOUS
  <2>5. Restored \in Nat /\ Len(stack) - 1 \in Nat
    BY <1>9, <1>12
  <2>6. Len(stack') = (Len(stack) - 1) + (Restored + Len(payload.kids[x]))
    BY <2>2, <2>3, Zenon
  <2>7. QED BY <2>1, <2>4, <2>5, <2>6, Zenon
<1>16. \A i \in 1..(Len(stack) - 1) : stack'[i] = stack[i]
  BY <1>8, <1>11
<1>17. \A j \in 1..Len(payload.kids[x]) :
         /\ stack'[Len(stack) - 1 + Restored + j].node = payload.kids[x][j]
         /\ stack'[Len(stack) - 1 + Restored + j].type = IF payload.kind[x] = "object" THEN "keyed" ELSE "root"
  <2> TAKE j \in 1..Len(payload.kids[x])
  <2>1. stack'[Len(stack) - 1 + Restored + j] = children[j]
    BY <1>7, <1>14
  <2>2. QED BY <1>7, <2>1
<1>18. stack' \in Seq(Frame)
  BY <1>11
<1> USE DEF words, x
<1>19. QED BY <1>3, <1>4, <1>5, <1>13, <1>15, <1>16, <1>17, <1>18, Zenon

(* Where a frame of the stack that a visit leaves comes from.              *)
LEMMA VisitPlaces ==
  ASSUME TypeOK, Visit, NEW i \in 1..Len(stack')
  PROVE  \/ i \in 1..(Len(stack) - 1) /\ stack'[i] = stack[i]
         \/ /\ Restored = 1 /\ i = Len(stack) /\ Top.type = "keyed"
            /\ stack'[i] = Pop(Len(KeyWords(Top)))
         \/ \E j \in 1..Len(payload.kids[Top.node]) :
              /\ i = Len(stack) - 1 + Restored + j
              /\ stack'[i].node = payload.kids[Top.node][j]
              /\ stack'[i].type = IF payload.kind[Top.node] = "object" THEN "keyed" ELSE "root"
<1> DEFINE L == Len(stack) - 1
           n == Len(payload.kids[Top.node])
<1>1. L \in Nat /\ L + 1 = Len(stack) /\ stack # <<>>
  BY TopFrame DEF Visit
<1>2. n \in Nat
  <2>1. payload \in Payloads /\ Top.node \in Nodes
    BY <1>1, TopFrame DEF TypeOK, Visit
  <2>2. payload.kids[Top.node] \in Seq(Nodes)
    BY <2>1, PayloadType
  <2>3. QED BY <2>2
<1>3. Restored \in {0, 1} /\ (Restored = 1 => Top.type = "keyed")
  BY DEF Restored
<1>4. Len(stack') = L + Restored + n
  BY VisitFrames
<1> HIDE DEF L, n
<1>5. \/ i \in 1..L
      \/ Restored = 1 /\ i = L + 1
      \/ \E j \in 1..n : i = L + Restored + j
  <2>1. CASE i > L + Restored
    <3>1. i - (L + Restored) \in 1..n /\ i = L + Restored + (i - (L + Restored))
      BY <1>1, <1>2, <1>3, <1>4, <2>1
    <3>2. QED BY <3>1
  <2>2. QED BY <1>1, <1>2, <1>3, <1>4, <2>1
<1>6. CASE i \in 1..L
  BY <1>6, VisitFrames DEF L
<1>7. CASE Restored = 1 /\ i = L + 1
  BY <1>1, <1>3, <1>7, VisitFrames
<1>8. ASSUME NEW j \in 1..n, i = L + Restored + j
      PROVE  \E j_1 \in 1..Len(payload.kids[Top.node]) :
              /\ i = Len(stack) - 1 + Restored + j_1
              /\ stack'[i].node = payload.kids[Top.node][j_1]
              /\ stack'[i].type = IF payload.kind[Top.node] = "object" THEN "keyed" ELSE "root"
  <2>1. j \in 1..Len(payload.kids[Top.node])
    BY DEF n
  <2>2. i = Len(stack) - 1 + Restored + j
    BY <1>8 DEF L
  <2>3. QED BY <2>1, <2>2, VisitFrames, Zenon
<1>9. QED BY <1>5, <1>6, <1>7, <1>8, Zenon

(* A visit leaves the path the key path of the value it visits, and every  *)
(* frame in the right context.                                             *)
LEMMA VisitContexts ==
  ASSUME TypeOK, ContextsInv, Visit
  PROVE  ContextsInv' /\ path' = KeyPath(payload, Top.node)
<1> DEFINE L == Len(stack) - 1
           x == Top.node
<1>1. payload \in Payloads /\ path \in Seq(Word) /\ stage = "walk" /\ stack # <<>> /\ Top.type # "pop"
  BY DEF TypeOK, Visit
<1>2. L \in Nat /\ L + 1 = Len(stack) /\ x \in Nodes /\ Top = stack[Len(stack)]
  BY <1>1, TopFrame
<1>3. PICK c : Contexts(c)
  BY <1>1 DEF ContextsInv
<1>4. /\ c \in [0..Len(stack) -> Seq(Word)] /\ c[Len(stack)] = path
      /\ \A i \in 1..Len(stack) :
           IF IsNode(i) THEN c[i - 1] = c[i] /\ c[i] \o KeyWords(stack[i]) = KeyPath(payload, stack[i].node)
           ELSE stack[i].n <= Len(c[i]) /\ c[i - 1] = SubSeq(c[i], 1, Len(c[i]) - stack[i].n)
  BY <1>3 DEF Contexts
<1>5. c[L] = path /\ path \o KeyWords(Top) = KeyPath(payload, x)
  <2>1. Len(stack) \in 1..Len(stack) /\ IsNode(Len(stack)) /\ Len(stack) - 1 = L
    BY <1>1, <1>2 DEF IsNode
  <2>2. QED BY <1>2, <1>4, <2>1
<1>6. /\ path' \in Seq(Word) /\ path' = path \o KeyWords(Top) /\ KeyWords(Top) \in Seq(Word)
  BY VisitFrames
<1>7. path' = KeyPath(payload, x)
  BY <1>5, <1>6
<1>8. payload' = payload
  BY DEF Visit
<1>9. Len(stack') \in Nat /\ Len(stack') >= L /\ (Len(stack') = L => Restored = 0)
  <2> DEFINE n == Len(payload.kids[x])
  <2>1. n \in Nat
    <3>1. payload.kids[x] \in Seq(Nodes)
      BY <1>1, <1>2, PayloadType
    <3>2. QED BY <3>1
  <2>2. Restored \in {0, 1}
    BY DEF Restored
  <2>3. Len(stack') = L + Restored + n
    BY VisitFrames
  <2> HIDE DEF n, L
  <2>4. QED BY <1>2, <2>1, <2>2, <2>3
<1>10. Restored = 0 => path' = path
  BY <1>1, <1>6 DEF Restored, KeyWords
<1> HIDE DEF L, x
<1>11. PICK d : d = [i \in 0..Len(stack') |-> IF i <= L THEN c[i] ELSE path']
  OBVIOUS
<1>12. d \in [0..Len(stack') -> Seq(Word)]
  <2> SUFFICES ASSUME NEW i \in 0..Len(stack') PROVE (IF i <= L THEN c[i] ELSE path') \in Seq(Word)
    BY <1>11
  <2>1. i <= L => i \in 0..Len(stack)
    BY <1>2, <1>9
  <2>2. QED BY <1>4, <1>6, <2>1
<1>13. \A i \in 0..Len(stack') : i > L => d[i] = path'
  BY <1>2, <1>9, <1>11
<1>14. \A i \in 0..L : d[i] = c[i]
  BY <1>2, <1>9, <1>11
<1>15. d[Len(stack')] = path'
  <2>1. CASE Len(stack') > L
    BY <1>9, <1>13, <2>1
  <2>2. CASE Len(stack') = L
    <3>1. Restored = 0
      BY <1>9, <2>2
    <3>2. QED BY <1>2, <1>5, <1>10, <1>14, <2>2, <3>1
  <2>3. QED BY <1>2, <1>9, <2>1, <2>2
<1>16. ASSUME NEW i \in 1..Len(stack')
       PROVE  IF stack'[i].type # "pop"
              THEN d[i - 1] = d[i] /\ d[i] \o (KeyWords(stack[i]))' = KeyPath(payload, stack'[i].node)
              ELSE stack'[i].n <= Len(d[i]) /\ d[i - 1] = SubSeq(d[i], 1, Len(d[i]) - stack'[i].n)
  <2>1. CASE i \in 1..L /\ stack'[i] = stack[i]
    <3>1. i \in 1..Len(stack) /\ i - 1 \in 0..L /\ i \in 0..L
      BY <1>2, <2>1
    <3>2. d[i] = c[i] /\ d[i - 1] = c[i - 1]
      BY <1>14, <3>1
    <3>3. (KeyWords(stack[i]))' = KeyWords(stack[i])
      BY <1>8, <2>1 DEF KeyWords
    <3>4. QED BY <1>4, <2>1, <3>1, <3>2, <3>3 DEF IsNode
  <2>2. CASE Restored = 1 /\ i = Len(stack) /\ stack'[i] = Pop(Len(KeyWords(Top)))
    <3>1. d[i] = path' /\ d[i - 1] = path
      BY <1>2, <1>5, <1>9, <1>13, <1>14, <2>2
    <3>2. stack'[i].type = "pop" /\ stack'[i].n = Len(KeyWords(Top))
      BY <2>2 DEF Pop
    <3>3. SubSeq(path', 1, Len(path') - Len(KeyWords(Top))) = path
      BY <1>1, <1>6, Joined
    <3>4. Len(KeyWords(Top)) <= Len(path')
      BY <1>1, <1>6
    <3>5. QED BY <3>1, <3>2, <3>3, <3>4
  <2>3. ASSUME NEW j \in 1..Len(payload.kids[x]), i = L + Restored + j,
               stack'[i].node = payload.kids[x][j],
               stack'[i].type = IF payload.kind[x] = "object" THEN "keyed" ELSE "root"
        PROVE  stack'[i].type # "pop" /\ d[i - 1] = d[i]
               /\ d[i] \o (KeyWords(stack[i]))' = KeyPath(payload, stack'[i].node)
    <3>1. Len(payload.kids[x]) \in Nat /\ Restored \in {0, 1}
      BY <1>1, <1>2, PayloadType DEF Restored
    <3>2. i > L /\ i \in 0..Len(stack') /\ (i - 1 > L \/ (Restored = 0 /\ i - 1 = L))
      BY <1>2, <1>9, <2>3, <3>1
    <3>3. d[i] = path' /\ d[i - 1] = path'
      BY <1>2, <1>5, <1>9, <1>10, <1>13, <1>14, <3>2
    <3> DEFINE y == payload.kids[x][j]
    <3>4. y \in ChildrenOf(payload, x)
      BY <1>1, <1>2, PayloadType DEF ChildrenOf
    <3>5. KeyPath(payload, y) =
            KeyPath(payload, x) \o (IF payload.kind[x] = "object" THEN Words[payload.key[y]] ELSE <<>>)
      BY <1>1, <1>2, <3>4, KeyPathStep
    <3>6. (KeyWords(stack[i]))' = IF payload.kind[x] = "object" THEN Words[payload.key[y]] ELSE <<>>
      BY <1>8, <2>3 DEF KeyWords
    <3> HIDE DEF y
    <3>7. stack'[i].node = y /\ stack'[i].type # "pop"
      BY <2>3 DEF y
    <3>8. QED BY <1>7, <3>3, <3>5, <3>6, <3>7
  <2>4. QED BY <2>1, <2>2, <2>3, VisitPlaces DEF L, x
<1>17. (Contexts(d))'
  <2>1. \A i \in 1..Len(stack') :
          IF stack'[i].type # "pop"
          THEN d[i - 1] = d[i] /\ d[i] \o (KeyWords(stack[i]))' = KeyPath(payload', stack'[i].node)
          ELSE stack'[i].n <= Len(d[i]) /\ d[i - 1] = SubSeq(d[i], 1, Len(d[i]) - stack'[i].n)
    BY <1>8, <1>16
  <2>2. d \in [0..Len(stack') -> Seq(Word)] /\ d[Len(stack')] = path'
    BY <1>12, <1>15
  <2>3. QED BY <2>1, <2>2, Zenon DEF Contexts, IsNode
<1>18. QED BY <1>7, <1>17 DEF ContextsInv, x

(* A frame that pops finds enough words to pop.                            *)
LEMMA TopPops ==
  ASSUME stage' = "walk", ContextsInv', stack' \in Seq(Frame)
  PROVE  (stack # <<>> /\ Top.type = "pop" => Top.n <= Len(path))'
<1>1. PICK c : (Contexts(c))'
  BY DEF ContextsInv
<1> SUFFICES ASSUME stack' # <<>>, stack'[Len(stack')].type = "pop"
             PROVE  stack'[Len(stack')].n <= Len(path')
  BY DEF Top
<1>2. Len(stack') \in 1..Len(stack')
  OBVIOUS
<1>3. QED BY <1>1, <1>2 DEF Contexts, IsNode

(* A pop frame takes from the path exactly the words its visit put there. *)
LEMMA PopContexts ==
  ASSUME TypeOK, ContextsInv, PopFrame
  PROVE  /\ ContextsInv' /\ path' \in Seq(Word)
         /\ stack' \in Seq(Frame) /\ Len(stack') = Len(stack) - 1
         /\ \A i \in 1..Len(stack') : stack'[i] = stack[i]
<1> DEFINE L == Len(stack) - 1
<1>1. path \in Seq(Word) /\ stage = "walk" /\ stack # <<>> /\ Top.type = "pop" /\ Top.n <= Len(path)
  BY DEF TypeOK, PopFrame
<1>2. L \in Nat /\ L + 1 = Len(stack) /\ Top = stack[Len(stack)] /\ Top \in Frame
  BY <1>1, TopFrame
<1>3. /\ stack' \in Seq(Frame) /\ Len(stack') = L
      /\ \A i \in 1..L : stack'[i] = stack[i]
  BY <1>1, TopFrame DEF PopFrame
<1>4. Top.n \in Nat /\ Len(path) - Top.n \in 0..Len(path)
  BY <1>1, <1>2 DEF Frame
<1>5. path' = SubSeq(path, 1, Len(path) - Top.n) /\ path' \in Seq(Word)
  BY <1>1, <1>4, Shortened DEF PopFrame
<1>6. PICK c : Contexts(c)
  BY <1>1 DEF ContextsInv
<1>7. /\ c \in [0..Len(stack) -> Seq(Word)] /\ c[Len(stack)] = path
      /\ \A i \in 1..Len(stack) :
           IF IsNode(i) THEN c[i - 1] = c[i] /\ c[i] \o KeyWords(stack[i]) = KeyPath(payload, stack[i].node)
           ELSE stack[i].n <= Len(c[i]) /\ c[i - 1] = SubSeq(c[i], 1, Len(c[i]) - stack[i].n)
  BY <1>6 DEF Contexts
<1>8. c[L] = path'
  <2>1. Len(stack) \in 1..Len(stack) /\ ~IsNode(Len(stack)) /\ Len(stack) - 1 = L
    BY <1>1, <1>2 DEF IsNode
  <2>2. QED BY <1>2, <1>5, <1>7, <2>1
<1>9. PICK d : d = [i \in 0..L |-> c[i]]
  OBVIOUS
<1> HIDE DEF L
<1>10. d \in [0..L -> Seq(Word)] /\ d[L] = path' /\ \A i \in 0..L : d[i] = c[i]
  BY <1>2, <1>7, <1>8, <1>9
<1>11. ASSUME NEW i \in 1..L
       PROVE  IF stack'[i].type # "pop"
              THEN d[i - 1] = d[i] /\ d[i] \o (KeyWords(stack[i]))' = KeyPath(payload', stack'[i].node)
              ELSE stack'[i].n <= Len(d[i]) /\ d[i - 1] = SubSeq(d[i], 1, Len(d[i]) - stack'[i].n)
  <2>1. i \in 1..Len(stack) /\ i \in 0..L /\ i - 1 \in 0..L
    BY <1>2
  <2>2. stack'[i] = stack[i] /\ payload' = payload
    BY <1>3 DEF PopFrame
  <2>3. (KeyWords(stack[i]))' = KeyWords(stack[i])
    BY <2>2 DEF KeyWords
  <2>4. d[i] = c[i] /\ d[i - 1] = c[i - 1]
    BY <1>10, <2>1
  <2>5. QED BY <1>7, <2>1, <2>2, <2>3, <2>4 DEF IsNode
<1>12. (Contexts(d))'
  BY <1>3, <1>10, <1>11 DEF Contexts, IsNode
<1>13. QED BY <1>3, <1>5, <1>12 DEF ContextsInv, L

(* A visited value is now among those seen, its children are on the stack. *)
LEMMA VisitSeen ==
  ASSUME TypeOK, Visit, NEW S, Seen(S)
  PROVE  Top.node \notin S /\ Top.node \in Nodes /\ \E T : T = S \cup {Top.node} /\ (Seen(T))'
<1>1. PICK x : x = Top.node
  OBVIOUS
<1>2. payload \in Payloads /\ stack # <<>> /\ Top.type # "pop" /\ payload' = payload
  BY DEF TypeOK, Visit
<1>3. x \in Nodes /\ Len(stack) \in Nat \ {0} /\ Top = stack[Len(stack)]
  BY <1>1, <1>2, TopFrame
<1>4. Len(stack) \in DOMAIN stack /\ IsNode(Len(stack)) /\ stack[Len(stack)].node = x
  BY <1>1, <1>2, <1>3 DEF IsNode, TypeOK
<1>5. /\ S \subseteq Nodes
      /\ \A y \in S : Placed(y, S)
      /\ \A i \in DOMAIN stack : IsNode(i) => stack[i].node \notin S /\ Placed(stack[i].node, S)
      /\ \A i, j \in DOMAIN stack : IsNode(i) /\ IsNode(j) /\ stack[i].node = stack[j].node => i = j
      /\ \A y \in Nodes : Placed(y, S) => y \in S \/ OnStack(y)
  BY DEF Seen
<1>6. x \notin S /\ Placed(x, S)
  BY <1>4, <1>5
<1>7. PICK T : T = S \cup {x}
  OBVIOUS
<1>8. \A y : (Placed(y, T))' <=> Placed(y, T)
  BY <1>2 DEF Placed, IsRow
<1>9. \A y : Placed(y, T) <=> Placed(y, S) \/ y \in ChildrenOf(payload, x)
  BY <1>7 DEF Placed
<1>10. \A y \in ChildrenOf(payload, x) : y \in Nodes /\ y # x /\ y \notin S /\ ~Placed(y, S)
  <2> TAKE y \in ChildrenOf(payload, x)
  <2>1. y \in Nodes /\ ParentOf(payload, y) = x /\ x < y
    BY <1>2, <1>3, ParentIs
  <2>2. ~IsRow(payload, y)
    BY <1>2, <1>3, TreeAssumption
  <2>3. \A z \in S : y \in ChildrenOf(payload, z) => z = x
    BY <1>2, <1>5, <2>1, ParentIs
  <2>4. ~Placed(y, S)
    BY <1>6, <2>2, <2>3 DEF Placed
  <2>5. x # y
    BY <1>3, <2>1 DEF Nodes
  <2>6. QED BY <1>5, <2>1, <2>4, <2>5
<1>11. payload.kids[x] \in Seq(Nodes)
  BY <1>2, <1>3, PayloadType
<1>12. \A j \in 1..Len(payload.kids[x]) : payload.kids[x][j] \in ChildrenOf(payload, x)
  BY <1>11 DEF ChildrenOf
<1>13. \A i \in 1..Len(stack') :
         \/ i \in 1..(Len(stack) - 1) /\ stack'[i] = stack[i]
         \/ i = Len(stack) /\ stack'[i].type = "pop"
         \/ \E j \in 1..Len(payload.kids[x]) :
              /\ i = Len(stack) - 1 + Restored + j
              /\ stack'[i].node = payload.kids[x][j] /\ stack'[i].type # "pop"
  <2> TAKE i \in 1..Len(stack')
  <2>1. CASE i \in 1..(Len(stack) - 1) /\ stack'[i] = stack[i]
    BY <2>1
  <2>2. CASE i = Len(stack) /\ stack'[i] = Pop(Len(KeyWords(Top)))
    BY <2>2 DEF Pop
  <2>3. ASSUME NEW j \in 1..Len(payload.kids[x]), i = Len(stack) - 1 + Restored + j,
               stack'[i].node = payload.kids[x][j],
               stack'[i].type = IF payload.kind[x] = "object" THEN "keyed" ELSE "root"
        PROVE  stack'[i].type # "pop"
    BY <2>3
  <2>4. QED BY <1>1, <2>1, <2>2, <2>3, VisitPlaces
<1>14. DOMAIN stack' = 1..Len(stack') /\ DOMAIN stack = 1..Len(stack)
  BY VisitFrames DEF TypeOK
<1>15. ASSUME NEW i \in 1..Len(stack'), stack'[i].type # "pop"
       PROVE  \/ /\ i \in 1..(Len(stack) - 1) /\ i \in DOMAIN stack /\ IsNode(i) /\ stack'[i] = stack[i]
                 /\ Placed(stack'[i].node, S) /\ stack'[i].node \notin S /\ stack'[i].node # x
              \/ \E j \in 1..Len(payload.kids[x]) :
                   /\ i = Len(stack) - 1 + Restored + j
                   /\ stack'[i].node = payload.kids[x][j]
                   /\ stack'[i].node \in ChildrenOf(payload, x)
  <2>1. CASE i \in 1..(Len(stack) - 1) /\ stack'[i] = stack[i]
    <3>1. i \in DOMAIN stack /\ i # Len(stack) /\ IsNode(i)
      BY <1>3, <1>14, <1>15, <2>1 DEF IsNode
    <3>2. QED BY <1>4, <1>5, <2>1, <3>1
  <2>2. QED BY <1>12, <1>13, <1>15, <2>1
<1>16. \A i \in DOMAIN stack' : stack'[i].type # "pop" => stack'[i].node \notin T /\ Placed(stack'[i].node, T)
  BY <1>7, <1>9, <1>10, <1>14, <1>15
<1>17. \A i, j \in DOMAIN stack' :
         stack'[i].type # "pop" /\ stack'[j].type # "pop" /\ stack'[i].node = stack'[j].node => i = j
  <2> TAKE i, j \in DOMAIN stack'
  <2> HAVE stack'[i].type # "pop" /\ stack'[j].type # "pop" /\ stack'[i].node = stack'[j].node
  <2>1. CASE stack'[i].node \in ChildrenOf(payload, x)
    <3>1. PICK k \in 1..Len(payload.kids[x]) : i = Len(stack) - 1 + Restored + k /\ stack'[i].node = payload.kids[x][k]
      BY <1>10, <1>14, <1>15, <2>1
    <3>2. PICK l \in 1..Len(payload.kids[x]) : j = Len(stack) - 1 + Restored + l /\ stack'[j].node = payload.kids[x][l]
      BY <1>10, <1>14, <1>15, <2>1
    <3>3. k = l
      BY <1>2, <1>3, <1>11, <3>1, <3>2, TreeAssumption
    <3>4. QED BY <3>1, <3>2, <3>3
  <2>2. CASE stack'[i].node \notin ChildrenOf(payload, x)
    BY <1>5, <1>14, <1>15, <2>2
  <2>3. QED BY <2>1, <2>2
<1>18. \A y \in Nodes : Placed(y, T) => y \in T \/ \E i \in DOMAIN stack' : stack'[i].type # "pop" /\ stack'[i].node = y
  <2> TAKE y \in Nodes
  <2> HAVE Placed(y, T)
  <2>1. CASE y \in ChildrenOf(payload, x)
    <3>1. PICK j \in 1..Len(payload.kids[x]) : y = payload.kids[x][j]
      BY <1>11, <2>1 DEF ChildrenOf
    <3>2. PICK i : i = Len(stack) - 1 + Restored + j
      OBVIOUS
    <3>3. i \in 1..Len(stack')
      <4>1. Len(payload.kids[x]) \in Nat /\ Restored \in {0, 1}
        BY <1>11 DEF Restored
      <4>2. PICK n : n = Len(payload.kids[x])
        OBVIOUS
      <4>3. Len(stack') = Len(stack) - 1 + Restored + n
        BY <1>1, <4>2, VisitFrames
      <4>4. QED BY <1>3, <3>2, <4>1, <4>2, <4>3
    <3>4. stack'[i].node = y /\ stack'[i].type # "pop"
      BY <1>1, <3>1, <3>2, VisitFrames
    <3>5. QED BY <1>14, <3>3, <3>4
  <2>2. CASE Placed(y, S) /\ y # x
    <3>1. CASE y \in S
      BY <1>7, <3>1
    <3>2. CASE OnStack(y)
      <4>1. PICK i \in DOMAIN stack : IsNode(i) /\ stack[i].node = y
        BY <3>2 DEF OnStack
      <4>2. i \in 1..(Len(stack) - 1)
        BY <1>3, <1>4, <1>14, <2>2, <4>1
      <4>3. stack'[i] = stack[i]
        BY <4>2, VisitFrames
      <4>4. i \in 1..Len(stack')
        <5>1. Len(payload.kids[x]) \in Nat /\ Restored \in {0, 1}
          BY <1>11 DEF Restored
        <5>2. PICK n : n = Len(payload.kids[x])
          OBVIOUS
        <5>3. Len(stack') = Len(stack) - 1 + Restored + n
          BY <1>1, <5>2, VisitFrames
        <5>4. i \in Nat /\ 1 <= i /\ i <= Len(stack) - 1 /\ Len(stack) - 1 \in Nat
          BY <1>3, <4>2
        <5>5. n \in Nat /\ Restored \in Nat
          BY <5>1, <5>2
        <5>6. Len(stack') \in Nat /\ Len(stack) - 1 <= Len(stack')
          BY <5>3, <5>4, <5>5
        <5>7. QED BY <5>4, <5>6
      <4>5. QED BY <1>14, <4>1, <4>3, <4>4 DEF IsNode
    <3>3. QED BY <1>5, <2>2, <3>1, <3>2
  <2>3. QED BY <1>7, <1>9, <2>1, <2>2
<1>19. T \subseteq Nodes /\ \A y \in T : Placed(y, T)
  BY <1>3, <1>5, <1>6, <1>7, <1>9
<1>20. (Seen(T))'
  BY <1>8, <1>16, <1>17, <1>18, <1>19 DEF Seen, IsNode, OnStack
<1>21. T = S \cup {Top.node}
  BY <1>1, <1>7
<1>22. QED BY <1>1, <1>3, <1>6, <1>20, <1>21, Zenon

-----------------------------------------------------------------------------
(* Judging a leaf. *)

(* What the patterns find in a leaf does not change.                       *)
LEMMA TextFixed ==
  ASSUME payload' = payload, text' = text, categories' = categories
  PROVE  \A x : /\ (Judged(x))' = Judged(x)
                /\ (RegexHits(text[x], KeyPath(payload, x)))' = RegexHits(text[x], KeyPath(payload, x))
BY DEF Judged, RegexHits

(* No leaf comes with a rewritten text, and an empty one is none.          *)
LEMMA Unwritten ==
  ASSUME payload \in Payloads, TextOK
  PROVE  Empty # Rewritten /\ \A x \in Leaves(payload) : text[x] # Rewritten
<1>1. Empty # Rewritten
  BY DEF Empty, Rewritten, Written
<1>2. Rewritten \notin Texts[payload.holds]
  BY PayloadType, TextsAssumption
<1>3. QED BY <1>1, <1>2 DEF TextOK

(* A payload has finitely many leaves. *)
LEMMA LeavesFinite ==
  ASSUME NEW p
  PROVE  IsFiniteSet(Leaves(p)) /\ Leaves(p) \subseteq Nodes
         /\ \A S : IsFiniteSet(S \cap Leaves(p)) /\ Cardinality(S \cap Leaves(p)) \in Nat
<1>1. IsFiniteSet(Nodes)
  BY SizeAssumption, FS_Interval DEF Nodes
<1>2. Leaves(p) \subseteq Nodes
  BY DEF Leaves
<1>3. IsFiniteSet(Leaves(p))
  BY <1>1, <1>2, FS_Subset
<1>4. QED BY <1>2, <1>3, FS_Subset, FS_CardinalityType

(* Rewriting a leaf that was not counts one more.                          *)
LEMMA Counted ==
  ASSUME NEW L, IsFiniteSet(L), NEW f, DOMAIN f = L, NEW x \in L, NEW t, f[x] # Rewritten,
         NEW g, g = [f EXCEPT ![x] = t]
  PROVE  /\ Cardinality({y \in L : f[y] = Rewritten}) \in Nat
         /\ Cardinality({y \in L : g[y] = Rewritten}) =
              IF t = Rewritten THEN Cardinality({y \in L : f[y] = Rewritten}) + 1
              ELSE Cardinality({y \in L : f[y] = Rewritten})
<1> DEFINE F == {y \in L : f[y] = Rewritten}
           G == {y \in L : g[y] = Rewritten}
<1>1. IsFiniteSet(F) /\ Cardinality(F) \in Nat
  BY FS_Subset, FS_CardinalityType
<1>2. x \notin F
  OBVIOUS
<1>3. CASE t = Rewritten
  <2>1. G = F \cup {x}
    BY <1>3
  <2>2. QED BY <1>1, <1>2, <1>3, <2>1, FS_AddElement
<1>4. CASE t # Rewritten
  <2>1. G = F
    BY <1>4
  <2>2. QED BY <1>1, <1>4, <2>1
<1>5. QED BY <1>1, <1>3, <1>4

(* A visit handles the value it takes: a leaf is scanned or set aside, and *)
(* no other value is touched.                                              *)
LEMMA VisitHandled ==
  ASSUME IInv, Visit, NEW S, Seen(S), Handled(S)
  PROVE  /\ \E T : T = S \cup {Top.node} /\ (Handled(T))'
         /\ SlotsInv' /\ CountInv'
         /\ value' \in [Leaves(payload) -> Contents(payload)]
         /\ slots' \in Seq(Slot) /\ scanned' \in Nat /\ total' \in Nat /\ Len(slots') >= Len(slots)
<1>1. PICK x : x = Top.node
  OBVIOUS
<1>2. PICK T : T = S \cup {x}
  OBVIOUS
<1>3. /\ payload \in Payloads /\ value \in [Leaves(payload) -> Contents(payload)]
      /\ slots \in Seq(Slot) /\ scanned \in Nat /\ total \in Nat /\ ner \in BOOLEAN
  BY DEF IInv, TypeOK
<1>4. payload' = payload /\ text' = text /\ categories' = categories /\ ner' = ner /\ response' = response
  BY DEF Visit
<1>5. x \in Nodes /\ x \notin S
  BY <1>1, VisitSeen DEF IInv
<1>6. /\ scanned = Cardinality(S \cap Leaves(payload))
      /\ \A y \in Leaves(payload) \ S : value[y] = text[y]
      /\ ~ner => \A y \in S \cap Leaves(payload) : value[y] = Judged(y)
      /\ ner => SlotNodes = S \cap Leaves(payload) /\ \A y \in S \cap Leaves(payload) : value[y] = Empty
  BY DEF Handled
<1>7. \A y : (Judged(y))' = Judged(y)
  BY <1>4, TextFixed
<1>8. /\ ~ner => slots = <<>>
      /\ \A k \in DOMAIN slots :
           /\ slots[k].node \in Leaves(payload) /\ slots[k].text = text[slots[k].node]
           /\ slots[k].regex = RegexHits(text[slots[k].node], KeyPath(payload, slots[k].node))
      /\ \A j, k \in DOMAIN slots : slots[j].node = slots[k].node => j = k
  BY DEF IInv, SlotsInv
<1>9. \A y : (RegexHits(text[y], KeyPath(payload, y)))' = RegexHits(text[y], KeyPath(payload, y))
  BY <1>4, TextFixed
<1>10. response # "error" => total = Cardinality({y \in Leaves(payload) : value[y] = Rewritten})
  BY DEF IInv, CountInv
<1>11. CASE x \notin Leaves(payload)
  <2>1. value' = value /\ slots' = slots /\ scanned' = scanned /\ total' = total
    BY <1>1, <1>5, <1>11 DEF Visit, Leaves
  <2>2. T \cap Leaves(payload) = S \cap Leaves(payload) /\ Leaves(payload) \ T = Leaves(payload) \ S
    BY <1>2, <1>11
  <2>3. SlotNodes' = SlotNodes
    BY <2>1 DEF SlotNodes
  <2>4. (Handled(T))'
    BY <1>4, <1>6, <1>7, <2>1, <2>2, <2>3 DEF Handled
  <2>5. SlotsInv'
    BY <1>4, <1>8, <1>9, <2>1 DEF SlotsInv
  <2>6. CountInv'
    BY <1>4, <1>10, <2>1 DEF CountInv
  <2>7. QED BY <1>1, <1>2, <1>3, <2>1, <2>4, <2>5, <2>6
<1>12. CASE x \in Leaves(payload)
  <2>1. VisitLeaf(x, path')
    BY <1>1, <1>12 DEF Visit, Leaves
  <2>2. value[x] = text[x] /\ text[x] # Rewritten /\ Empty # Rewritten
    BY <1>3, <1>5, <1>6, <1>12, Unwritten DEF IInv
  <2>3. RegexHits(value[x], path') = RegexHits(text[x], KeyPath(payload, x))
    BY <1>1, <2>2, VisitContexts DEF IInv
  <2>4. scanned' = scanned + 1
    BY <2>1 DEF VisitLeaf
  <2>5. T \cap Leaves(payload) = (S \cap Leaves(payload)) \cup {x} /\ x \notin S \cap Leaves(payload)
        /\ \A y \in Leaves(payload) \ T : y # x /\ y \in Leaves(payload) \ S
    BY <1>2, <1>5, <1>12
  <2>6. scanned' = Cardinality(T \cap Leaves(payload)) /\ scanned' \in Nat
    <3>1. IsFiniteSet(S \cap Leaves(payload))
      BY LeavesFinite
    <3>2. Cardinality((S \cap Leaves(payload)) \cup {x}) = Cardinality(S \cap Leaves(payload)) + 1
      BY <2>5, <3>1, FS_AddElement
    <3>3. scanned' = Cardinality(T \cap Leaves(payload))
      BY <1>6, <2>4, <2>5, <3>2, Zenon
    <3>4. scanned' \in Nat
      BY <1>3, <2>4
    <3>5. QED BY <3>3, <3>4
  <2>7. IsFiniteSet(Leaves(payload)) /\ DOMAIN value = Leaves(payload)
    BY <1>3, LeavesFinite
  <2>8. Empty \in Contents(payload) /\ Rewritten \in Contents(payload) /\ value[x] \in Contents(payload)
    BY <1>3, <1>12 DEF Contents
  <2>9. CASE ner
    <3> DEFINE leaf == [node |-> x, text |-> value[x], regex |-> RegexHits(value[x], path')]
    <3>1. slots' = Append(slots, leaf) /\ value' = [value EXCEPT ![x] = Empty] /\ total' = total
      BY <2>1, <2>9 DEF VisitLeaf
    <3>2. leaf \in Slot
      BY <1>5, <2>8 DEF Slot, RegexHits
    <3>3. leaf.node = x /\ leaf.text = text[x] /\ leaf.regex = RegexHits(text[x], KeyPath(payload, x))
      BY <2>2, <2>3
    <3> HIDE DEF leaf
    <3>4. /\ slots' \in Seq(Slot) /\ Len(slots') = Len(slots) + 1 /\ slots'[Len(slots) + 1] = leaf
          /\ \A k \in 1..Len(slots) : slots'[k] = slots[k]
          /\ DOMAIN slots' = 1..(Len(slots) + 1) /\ DOMAIN slots = 1..Len(slots)
          /\ Len(slots) \in Nat
      BY <1>3, <3>1, <3>2
    <3>5. \A k \in DOMAIN slots' : k \in DOMAIN slots \/ (k = Len(slots) + 1 /\ slots'[k].node = x)
      BY <3>3, <3>4
    <3>6. SlotNodes' = T \cap Leaves(payload)
      <4>1. SlotNodes' = SlotNodes \cup {x}
        <5>1. ASSUME NEW y \in SlotNodes' PROVE y \in SlotNodes \cup {x}
          BY <3>4, <3>5, <5>1 DEF SlotNodes
        <5>2. ASSUME NEW y \in SlotNodes PROVE y \in SlotNodes'
          <6>1. PICK k \in DOMAIN slots : y = slots[k].node
            BY <5>2 DEF SlotNodes
          <6>2. k \in DOMAIN slots' /\ slots'[k] = slots[k]
            BY <3>4
          <6>3. QED BY <6>1, <6>2 DEF SlotNodes
        <5>3. x \in SlotNodes'
          <6>1. Len(slots) + 1 \in DOMAIN slots'
            BY <3>4
          <6>2. QED BY <3>3, <3>4, <6>1 DEF SlotNodes
        <5>4. QED BY <5>1, <5>2, <5>3
      <4>2. QED BY <1>6, <2>5, <2>9, <4>1
    <3>7. \A y \in Leaves(payload) : value'[y] = IF y = x THEN Empty ELSE value[y]
      BY <1>3, <3>1
    <3>8. (Handled(T))'
      <4>1. \A y \in Leaves(payload) \ T : value'[y] = text[y]
        BY <1>6, <2>5, <3>7
      <4>2. \A y \in T \cap Leaves(payload) : value'[y] = Empty
        BY <1>6, <2>5, <2>9, <3>7
      <4>3. QED BY <1>4, <2>6, <2>9, <3>6, <4>1, <4>2 DEF Handled
    <3>9. SlotsInv'
      <4>1. \A k \in DOMAIN slots' :
              /\ slots'[k].node \in Leaves(payload) /\ slots'[k].text = text[slots'[k].node]
              /\ slots'[k].regex = RegexHits(text[slots'[k].node], KeyPath(payload, slots'[k].node))
        <5> TAKE k \in DOMAIN slots'
        <5>1. CASE k \in DOMAIN slots
          <6>1. slots'[k] = slots[k]
            BY <3>4, <5>1
          <6>2. QED BY <1>8, <5>1, <6>1
        <5>2. CASE k = Len(slots) + 1
          BY <1>12, <3>3, <3>4, <5>2
        <5>3. QED BY <3>5, <5>1, <5>2
      <4>2. \A j, k \in DOMAIN slots' : slots'[j].node = slots'[k].node => j = k
        <5>1. \A k \in DOMAIN slots : slots'[k].node = slots[k].node /\ slots[k].node # x
          BY <1>6, <2>5, <2>9, <3>4 DEF SlotNodes
        <5>2. QED BY <1>8, <3>5, <5>1
      <4>3. \A k \in DOMAIN slots' :
              /\ slots'[k].node \in Leaves(payload') /\ slots'[k].text = text'[slots'[k].node]
              /\ slots'[k].regex = (RegexHits(text[slots[k].node], KeyPath(payload, slots[k].node)))'
        BY <1>4, <4>1 DEF RegexHits
      <4>4. QED BY <1>4, <2>9, <4>2, <4>3 DEF SlotsInv
    <3>10. CountInv'
      <4>1. Cardinality({y \in Leaves(payload) : value'[y] = Rewritten}) =
              Cardinality({y \in Leaves(payload) : value[y] = Rewritten})
        BY <1>12, <2>2, <2>7, <3>1, Counted
      <4>2. QED BY <1>4, <1>10, <3>1, <4>1 DEF CountInv
    <3>11. value' \in [Leaves(payload) -> Contents(payload)]
      BY <1>3, <2>8, <3>1
    <3>12. QED BY <1>1, <1>2, <1>3, <2>6, <3>1, <3>4, <3>8, <3>9, <3>10, <3>11
  <2>10. CASE ~ner
    <3> DEFINE t == IF RegexHits(value[x], path') THEN Rewritten ELSE value[x]
    <3>1. /\ slots' = slots /\ value' = [value EXCEPT ![x] = t]
          /\ total' = IF RegexHits(value[x], path') THEN total + 1 ELSE total
      <4>1. CASE RegexHits(value[x], path')
        BY <2>1, <2>10, <4>1 DEF VisitLeaf
      <4>2. CASE ~RegexHits(value[x], path')
        <5>1. slots' = slots /\ value' = value /\ total' = total
          BY <2>1, <2>10, <4>2 DEF VisitLeaf
        <5>2. value = [value EXCEPT ![x] = value[x]]
          BY <1>3
        <5>3. QED BY <4>2, <5>1, <5>2
      <4>3. QED BY <4>1, <4>2
    <3>2. t = Judged(x) /\ t \in Contents(payload) /\ (t = Rewritten <=> RegexHits(value[x], path'))
      BY <2>2, <2>3, <2>8 DEF Judged
    <3> HIDE DEF t
    <3>3. \A y \in Leaves(payload) : value'[y] = IF y = x THEN t ELSE value[y]
      BY <1>3, <3>1
    <3>4. (Handled(T))'
      <4>1. \A y \in Leaves(payload) \ T : value'[y] = text[y]
        BY <1>6, <2>5, <3>3
      <4>2. \A y \in T \cap Leaves(payload) : value'[y] = Judged(y)
        BY <1>6, <2>5, <2>10, <3>2, <3>3
      <4>3. QED BY <1>4, <1>7, <2>6, <2>10, <4>1, <4>2 DEF Handled
    <3>5. SlotsInv'
      BY <1>4, <1>8, <1>9, <3>1 DEF SlotsInv
    <3>6. CountInv'
      <4>1. Cardinality({y \in Leaves(payload) : value'[y] = Rewritten}) =
              IF t = Rewritten THEN Cardinality({y \in Leaves(payload) : value[y] = Rewritten}) + 1
              ELSE Cardinality({y \in Leaves(payload) : value[y] = Rewritten})
        BY <1>12, <2>2, <2>7, <3>1, Counted
      <4>2. QED BY <1>4, <1>10, <3>1, <3>2, <4>1 DEF CountInv
    <3>7. value' \in [Leaves(payload) -> Contents(payload)] /\ total' \in Nat
      <4>1. value' \in [Leaves(payload) -> Contents(payload)]
        BY <1>3, <3>1, <3>2
      <4>2. total' \in Nat
        BY <1>3, <3>1
      <4>3. QED BY <4>1, <4>2
    <3>8. QED BY <1>1, <1>2, <1>3, <2>6, <3>1, <3>4, <3>5, <3>6, <3>7
  <2>11. QED BY <1>3, <2>9, <2>10
<1>13. QED BY <1>11, <1>12

-----------------------------------------------------------------------------
(* The steps of the walk. *)

(* A visit keeps the invariant. *)
LEMMA VisitKeeps ==
  ASSUME IInv, Visit
  PROVE  IInv'
<1>1. PICK S : Seen(S) /\ Handled(S)
  BY DEF IInv, SeenInv, Visit
<1>2. TypeOK /\ TextOK /\ ContextsInv /\ FoundInv /\ AnswerInv
  BY DEF IInv
<1>3. /\ payload' = payload /\ text' = text /\ categories' = categories /\ ner' = ner /\ stage' = stage
      /\ at' = at /\ windows' = windows /\ results' = results /\ response' = response /\ found' = found
      /\ stage = "walk"
  BY DEF Visit
<1>4. at = 0 /\ windows = <<>> /\ found = {}
  BY <1>2, <1>3 DEF FoundInv
<1>5. ContextsInv' /\ stack' \in Seq(Frame) /\ path' \in Seq(Word)
  BY <1>2, VisitContexts, VisitFrames
<1>6. /\ SlotsInv' /\ CountInv' /\ value' \in [Leaves(payload) -> Contents(payload)]
      /\ slots' \in Seq(Slot) /\ scanned' \in Nat /\ total' \in Nat
  BY <1>1, VisitHandled
<1>7. TypeOK'
  <2>1. (stack # <<>> /\ Top.type = "pop" => Top.n <= Len(path))'
    BY <1>3, <1>5, TopPops
  <2>2. Slot' = Slot
    BY <1>3 DEF Slot
  <2>3. at' \in 0..Len(slots') /\ windows' \in Seq(DOMAIN slots')
    BY <1>3, <1>4, <1>6
  <2>4. QED BY <1>2, <1>3, <1>5, <1>6, <2>1, <2>2, <2>3 DEF TypeOK
<1>8. SeenInv'
  <2>1. PICK T : T = S \cup {Top.node} /\ (Handled(T))'
    BY <1>1, VisitHandled
  <2>2. (Seen(T))' /\ T \in SUBSET Nodes
    BY <1>1, <1>2, <2>1, VisitSeen DEF Seen
  <2>3. QED BY <2>1, <2>2 DEF SeenInv
<1>9. FoundInv' /\ AnswerInv' /\ TextOK'
  <2>1. FoundInv'
    BY <1>3, <1>4 DEF FoundInv
  <2>2. response = "none"
    BY <1>2, <1>3 DEF AnswerInv, TypeOK
  <2>3. AnswerInv'
    BY <1>3, <2>2 DEF AnswerInv
  <2>4. QED BY <1>2, <1>3, <2>1, <2>3 DEF TextOK
<1>10. QED BY <1>5, <1>6, <1>7, <1>8, <1>9 DEF IInv

(* Popping keeps the invariant. *)
LEMMA PopFrameKeeps ==
  ASSUME IInv, PopFrame
  PROVE  IInv'
<1>1. PICK S \in SUBSET Nodes : Seen(S) /\ Handled(S)
  BY DEF IInv, SeenInv, PopFrame
<1>2. TypeOK /\ TextOK /\ ContextsInv /\ SlotsInv /\ FoundInv /\ CountInv /\ AnswerInv
  BY DEF IInv
<1>3. /\ payload' = payload /\ text' = text /\ categories' = categories /\ ner' = ner /\ stage' = stage
      /\ value' = value /\ at' = at /\ windows' = windows /\ results' = results /\ response' = response
      /\ found' = found /\ slots' = slots /\ scanned' = scanned /\ total' = total /\ stage = "walk"
      /\ stack # <<>> /\ Top.type = "pop"
  BY DEF PopFrame, nerVars
<1>4. /\ ContextsInv' /\ stack' \in Seq(Frame) /\ path' \in Seq(Word) /\ Len(stack') = Len(stack) - 1
      /\ \A i \in 1..Len(stack') : stack'[i] = stack[i]
  BY <1>2, PopContexts
<1>5. TypeOK'
  <2>1. (stack # <<>> /\ Top.type = "pop" => Top.n <= Len(path))'
    BY <1>3, <1>4, TopPops
  <2>2. Slot' = Slot
    BY <1>3 DEF Slot
  <2>3. QED BY <1>2, <1>3, <1>4, <2>1, <2>2 DEF TypeOK
<1>6. SeenInv'
  <2>1. (Handled(S))'
    <3>1. \A y : (Judged(y))' = Judged(y)
      BY <1>3, TextFixed
    <3>2. SlotNodes' = SlotNodes
      BY <1>3 DEF SlotNodes
    <3>3. QED BY <1>1, <1>3, <3>1, <3>2 DEF Handled
  <2>2. (Seen(S))'
    <3>1. Len(stack) \in Nat \ {0} /\ Top = stack[Len(stack)] /\ DOMAIN stack = 1..Len(stack)
          /\ DOMAIN stack' = 1..(Len(stack) - 1)
      BY <1>2, <1>3, <1>4, TopFrame DEF TypeOK
    <3>2. \A i \in DOMAIN stack' : i \in DOMAIN stack /\ stack'[i] = stack[i]
      BY <1>4, <3>1
    <3>3. \A i \in DOMAIN stack : IsNode(i) => i \in DOMAIN stack' /\ stack'[i] = stack[i]
      BY <1>3, <1>4, <3>1 DEF IsNode
    <3>4. \A y : (Placed(y, S))' <=> Placed(y, S)
      BY <1>3 DEF Placed
    <3>5. \A y : OnStack(y) => \E i \in DOMAIN stack' : stack'[i].type # "pop" /\ stack'[i].node = y
      BY <3>3 DEF OnStack, IsNode
    <3>6. QED BY <1>1, <3>2, <3>4, <3>5 DEF Seen, IsNode, OnStack
  <2>3. QED BY <1>1, <2>1, <2>2 DEF SeenInv
<1>7. SlotsInv'
  <2>1. \A y : (RegexHits(text[y], KeyPath(payload, y)))' = RegexHits(text[y], KeyPath(payload, y))
    BY <1>3, TextFixed
  <2>2. QED BY <1>2, <1>3, <2>1 DEF SlotsInv
<1>8. FoundInv' /\ CountInv' /\ TextOK'
  BY <1>2, <1>3 DEF FoundInv, CountInv, TextOK
<1>9. AnswerInv'
  <2>1. response = "none"
    BY <1>2, <1>3 DEF AnswerInv, TypeOK
  <2>2. QED BY <1>3, <2>1 DEF AnswerInv
<1>10. QED BY <1>4, <1>5, <1>6, <1>7, <1>8, <1>9 DEF IInv

(* When nothing is left on the stack, every leaf has been visited.         *)
LEMMA AllSeen ==
  ASSUME payload \in Payloads, stack = <<>>, NEW S, Seen(S)
  PROVE  S \cap Leaves(payload) = Leaves(payload)
<1> DEFINE Unseen == {x \in Nodes : payload.kind[x] # "scalar" /\ x \notin S}
<1>1. \A x \in Nodes : Placed(x, S) => x \in S
  BY DEF Seen, OnStack
<1>2. Unseen = {}
  <2> SUFFICES ASSUME Unseen # {} PROVE FALSE
    OBVIOUS
  <2>1. Unseen \subseteq Nat
    BY DEF Nodes
  <2> HIDE DEF Unseen
  <2>2. PICK m \in Unseen : \A n \in Unseen : m <= n
    BY <2>1, LeastElement
  <2>3. m \in Nodes /\ payload.kind[m] # "scalar" /\ m \notin S
    BY DEF Unseen
  <2>4. CASE IsRow(payload, m)
    BY <1>1, <2>3, <2>4 DEF Placed
  <2>5. CASE IsChild(payload, m)
    <3>1. PICK z \in Nodes : m \in ChildrenOf(payload, z)
      BY <2>5 DEF IsChild
    <3>2. z < m
      BY <3>1, ParentIs
    <3>3. payload.kind[z] # "scalar"
      BY <3>1, TreeAssumption DEF ChildrenOf
    <3>4. z \notin Unseen
      <4>1. z \in Nat /\ m \in Nat
        BY <2>3 DEF Nodes
      <4>2. QED BY <2>2, <3>2, <4>1
    <3>5. z \in S
      BY <3>3, <3>4 DEF Unseen
    <3>6. Placed(m, S)
      BY <3>1, <3>5 DEF Placed
    <3>7. QED BY <1>1, <2>3, <3>6
  <2>6. QED BY <2>3, <2>4, <2>5, TreeAssumption
<1>3. QED BY <1>2 DEF Leaves

(* The walk ends when the stack is empty: everything was seen. *)
LEMMA WalkDoneKeeps ==
  ASSUME IInv, WalkDone
  PROVE  IInv'
<1>1. PICK S \in SUBSET Nodes : Seen(S) /\ Handled(S)
  BY DEF IInv, SeenInv, WalkDone
<1>2. TypeOK /\ TextOK /\ ContextsInv /\ SlotsInv /\ FoundInv /\ CountInv /\ AnswerInv
  BY DEF IInv
<1>3. /\ payload' = payload /\ text' = text /\ categories' = categories /\ ner' = ner /\ stage = "walk"
      /\ value' = value /\ at' = at /\ windows' = windows /\ stack' = stack /\ path' = path
      /\ found' = found /\ slots' = slots /\ scanned' = scanned /\ total' = total /\ stack = <<>>
  BY DEF WalkDone, walkVars
<1>4. /\ slots = <<>> => stage' = "done" /\ response' = "rows" /\ results' = results
      /\ slots # <<>> => stage' = "tokenize" /\ results' = [k \in DOMAIN slots |-> FALSE] /\ response' = response
  BY DEF WalkDone
<1>5. response = "none" /\ at = 0 /\ windows = <<>> /\ found = {} /\ payload \in Payloads /\ ner \in BOOLEAN
  BY <1>2, <1>3 DEF AnswerInv, TypeOK, FoundInv
<1>6. S \cap Leaves(payload) = Leaves(payload)
  BY <1>1, <1>3, <1>5, AllSeen
<1>7. /\ scanned = Cardinality(Leaves(payload))
      /\ ~ner => \A x \in Leaves(payload) : value[x] = Judged(x)
      /\ ner => SlotNodes = Leaves(payload) /\ \A x \in Leaves(payload) : value[x] = Empty
  BY <1>1, <1>6 DEF Handled
<1>8. slots \in Seq(Slot) /\ DOMAIN slots = 1..Len(slots) /\ Len(slots) \in Nat
  BY <1>2 DEF TypeOK
<1>9. stage' # "walk"
  BY <1>4
<1>10. TypeOK'
  <2>1. results' \in Seq(BOOLEAN)
    <3>1. CASE slots = <<>>
      BY <1>2, <1>4, <3>1 DEF TypeOK
    <3>2. CASE slots # <<>>
      <4>1. results' = [k \in 1..Len(slots) |-> FALSE]
        BY <1>4, <1>8, <3>2
      <4>2. QED BY <1>8, <4>1
    <3>3. QED BY <3>1, <3>2
  <2>2. Slot' = Slot /\ stage' \in {"done", "tokenize"} /\ response' \in {"none", "rows"}
    BY <1>3, <1>4, <1>5 DEF Slot
  <2>3. QED BY <1>2, <1>3, <1>5, <2>1, <2>2 DEF TypeOK
<1>11. SlotsInv'
  <2>1. \A y : (RegexHits(text[y], KeyPath(payload, y)))' = RegexHits(text[y], KeyPath(payload, y))
    BY <1>3, TextFixed
  <2>2. QED BY <1>2, <1>3, <2>1 DEF SlotsInv
<1>12. FoundInv'
  <2>1. CASE slots = <<>>
    BY <1>3, <1>4, <1>5, <2>1 DEF FoundInv
  <2>2. CASE slots # <<>>
    <3>1. ner
      BY <1>2, <2>2 DEF SlotsInv
    <3>2. Len(results') = Len(slots) /\ \A k \in DOMAIN slots : results'[k] = FALSE
      BY <1>4, <1>8, <2>2
    <3>3. SlotNodes' = SlotNodes
      BY <1>3 DEF SlotNodes
    <3>4. stage' = "tokenize"
      BY <1>4, <2>2
    <3>5. QED BY <1>3, <1>5, <1>7, <3>1, <3>2, <3>3, <3>4 DEF FoundInv
  <2>3. QED BY <2>1, <2>2
<1>13. CountInv' /\ TextOK' /\ ContextsInv' /\ SeenInv'
  BY <1>2, <1>3, <1>5, <1>9 DEF CountInv, TextOK, ContextsInv, SeenInv
<1>14. AnswerInv'
  <2>1. CASE slots = <<>>
    <3>1. \A x \in Leaves(payload) :
            value[x] = IF RegexHits(text[x], KeyPath(payload, x)) \/ x \in found THEN Rewritten ELSE text[x]
      <4>1. CASE ~ner
        BY <1>5, <1>7, <4>1 DEF Judged
      <4>2. CASE ner
        <5>1. SlotNodes = {}
          BY <2>1 DEF SlotNodes
        <5>2. QED BY <1>7, <4>2, <5>1
      <4>3. QED BY <1>5, <4>1, <4>2
    <3>2. \A x : (RegexHits(text[x], KeyPath(payload, x)))' = RegexHits(text[x], KeyPath(payload, x))
      BY <1>3, TextFixed
    <3>3. QED BY <1>3, <1>4, <1>7, <2>1, <3>1, <3>2 DEF AnswerInv
  <2>2. CASE slots # <<>>
    BY <1>4, <1>5, <2>2 DEF AnswerInv
  <2>3. QED BY <2>1, <2>2
<1>15. QED BY <1>10, <1>11, <1>12, <1>13, <1>14 DEF IInv

-----------------------------------------------------------------------------
(* The steps of the batch. *)

(* What a step that leaves the leaves and their slots alone keeps, once    *)
(* the walk is over.                                                       *)
LEMMA BatchFixed ==
  ASSUME IInv, stage # "walk", stage' # "walk",
         payload' = payload, text' = text, categories' = categories, ner' = ner, slots' = slots
  PROVE  /\ TextOK' /\ ContextsInv' /\ SeenInv' /\ SlotsInv' /\ SlotNodes' = SlotNodes /\ Slot' = Slot
         /\ \A x : (RegexHits(text[x], KeyPath(payload, x)))' = RegexHits(text[x], KeyPath(payload, x))
<1>1. \A y : (RegexHits(text[y], KeyPath(payload, y)))' = RegexHits(text[y], KeyPath(payload, y))
  BY TextFixed
<1>2. SlotsInv'
  BY <1>1 DEF IInv, SlotsInv
<1>3. TextOK' /\ ContextsInv' /\ SeenInv'
  BY DEF IInv, TextOK, ContextsInv, SeenInv
<1>4. SlotNodes' = SlotNodes /\ Slot' = Slot
  BY DEF SlotNodes, Slot
<1>5. QED BY <1>1, <1>2, <1>3, <1>4

(* An error ends the call: nothing is promised of the values then.         *)
LEMMA ErrorKeeps ==
  ASSUME IInv, InferError
  PROVE  IInv'
<1>1. /\ payload' = payload /\ text' = text /\ categories' = categories /\ ner' = ner /\ stage' = "done"
      /\ value' = value /\ at' = at /\ windows' = windows /\ results' = results /\ response' = "error"
      /\ found' = found /\ slots' = slots /\ scanned' = scanned /\ total' = total
      /\ stack' = stack /\ path' = path
  BY DEF InferError, nerVars, walkVars
<1>2. TypeOK /\ TextOK /\ SlotsInv /\ FoundInv
  BY DEF IInv
<1>3. TypeOK'
  <2>1. Slot' = Slot /\ Top' = Top
    BY <1>1 DEF Slot, Top
  <2>2. QED BY <1>1, <1>2, <2>1 DEF TypeOK
<1>4. SlotsInv'
  <2>1. \A y : (RegexHits(text[y], KeyPath(payload, y)))' = RegexHits(text[y], KeyPath(payload, y))
    BY <1>1, TextFixed
  <2>2. QED BY <1>1, <1>2, <2>1 DEF SlotsInv
<1>5. TextOK' /\ ContextsInv' /\ SeenInv' /\ FoundInv' /\ CountInv' /\ AnswerInv'
  BY <1>1, <1>2 DEF TextOK, ContextsInv, SeenInv, FoundInv, CountInv, AnswerInv
<1>6. QED BY <1>3, <1>4, <1>5 DEF IInv

(* Cutting a set-aside text into windows keeps the invariant. *)
LEMMA TokenizeKeeps ==
  ASSUME IInv, Tokenize
  PROVE  IInv'
<1>1. /\ payload' = payload /\ text' = text /\ categories' = categories /\ ner' = ner /\ stage' = stage
      /\ value' = value /\ results' = results /\ response' = response /\ found' = found /\ slots' = slots
      /\ scanned' = scanned /\ total' = total /\ stack' = stack /\ path' = path
      /\ stage = "tokenize" /\ at < Len(slots) /\ at' = at + 1
  BY DEF Tokenize, walkVars
<1>2. TypeOK /\ FoundInv /\ CountInv /\ AnswerInv
  BY DEF IInv
<1>3. /\ TextOK' /\ ContextsInv' /\ SeenInv' /\ SlotsInv' /\ SlotNodes' = SlotNodes /\ Slot' = Slot
  BY <1>1, BatchFixed
<1>4. at' \in 1..Len(slots) /\ DOMAIN slots = 1..Len(slots)
  BY <1>1, <1>2 DEF TypeOK
<1>5. windows' \in Seq(DOMAIN slots)
  <2>1. PICK n \in {0, 1, 2} : windows' = windows \o [k \in 1..n |-> at']
    BY DEF Tokenize
  <2>2. [k \in 1..n |-> at'] \in Seq(DOMAIN slots)
    BY <1>4, <2>1
  <2>3. windows \in Seq(DOMAIN slots)
    BY <1>2 DEF TypeOK
  <2>4. QED BY <2>1, <2>2, <2>3
<1>6. TypeOK'
  <2>1. Top' = Top /\ at' \in 0..Len(slots)
    BY <1>1, <1>4 DEF Top
  <2>2. QED BY <1>1, <1>2, <1>3, <1>5, <2>1 DEF TypeOK
<1>7. FoundInv'
  BY <1>1, <1>2, <1>3 DEF FoundInv
<1>8. CountInv'
  BY <1>1, <1>2 DEF CountInv
<1>9. AnswerInv'
  BY <1>1, <1>2 DEF AnswerInv, TypeOK
<1>10. QED BY <1>3, <1>6, <1>7, <1>8, <1>9 DEF IInv

(* A step to the next stage.                                               *)
LEMMA TokenizedKeeps ==
  ASSUME IInv, Tokenized
  PROVE  IInv'
<1>1. /\ payload' = payload /\ text' = text /\ categories' = categories /\ ner' = ner /\ stage' = "infer"
      /\ value' = value /\ results' = results /\ response' = response /\ found' = found /\ slots' = slots
      /\ scanned' = scanned /\ total' = total /\ stack' = stack /\ path' = path /\ windows' = windows
      /\ stage = "tokenize" /\ at' = 0
  BY DEF Tokenized, walkVars
<1>2. TypeOK /\ FoundInv /\ CountInv /\ AnswerInv
  BY DEF IInv
<1>3. /\ TextOK' /\ ContextsInv' /\ SeenInv' /\ SlotsInv' /\ SlotNodes' = SlotNodes /\ Slot' = Slot
  BY <1>1, BatchFixed
<1>4. TypeOK'
  <2>1. Top' = Top /\ at' \in 0..Len(slots)
    BY <1>1, <1>2 DEF Top, TypeOK
  <2>2. QED BY <1>1, <1>2, <1>3, <2>1 DEF TypeOK
<1>5. FoundInv'
  BY <1>1, <1>2, <1>3 DEF FoundInv
<1>6. CountInv' /\ AnswerInv'
  BY <1>1, <1>2 DEF CountInv, AnswerInv, TypeOK
<1>7. QED BY <1>3, <1>4, <1>5, <1>6 DEF IInv

(* The end of the inference keeps the invariant. *)
LEMMA InferredKeeps ==
  ASSUME IInv, Inferred
  PROVE  IInv'
<1>1. /\ payload' = payload /\ text' = text /\ categories' = categories /\ ner' = ner /\ stage' = "merge"
      /\ value' = value /\ results' = results /\ response' = response /\ found' = found /\ slots' = slots
      /\ scanned' = scanned /\ total' = total /\ stack' = stack /\ path' = path /\ windows' = windows
      /\ stage = "infer" /\ at' = at
  BY DEF Inferred, walkVars, nerVars
<1>2. TypeOK /\ FoundInv /\ SlotsInv /\ CountInv /\ AnswerInv
  BY DEF IInv
<1>3. /\ TextOK' /\ ContextsInv' /\ SeenInv' /\ SlotsInv' /\ SlotNodes' = SlotNodes /\ Slot' = Slot
  BY <1>1, BatchFixed
<1>4. TypeOK'
  <2>1. Top' = Top
    BY <1>1 DEF Top
  <2>2. QED BY <1>1, <1>2, <1>3, <2>1 DEF TypeOK
<1>5. FoundInv'
  <2>1. at = 0 /\ \A x \in Leaves(payload) : value[x] = Empty
    BY <1>1, <1>2 DEF FoundInv
  <2>2. \A k \in DOMAIN slots : k > 0 /\ value[slots[k].node] = Empty
    BY <1>2, <2>1 DEF SlotsInv, TypeOK
  <2>3. QED BY <1>1, <1>2, <1>3, <2>1, <2>2 DEF FoundInv
<1>6. CountInv' /\ AnswerInv'
  BY <1>1, <1>2 DEF CountInv, AnswerInv, TypeOK
<1>7. QED BY <1>3, <1>4, <1>5, <1>6 DEF IInv

(* A pass of the model, which may find names in its windows or fail, keeps *)
(* the invariant.                                                          *)
LEMMA RunChunkKeeps ==
  ASSUME IInv, RunChunk
  PROVE  IInv'
<1>1. /\ payload' = payload /\ text' = text /\ categories' = categories /\ ner' = ner /\ stage' = stage
      /\ value' = value /\ response' = response /\ slots' = slots /\ at' = at
      /\ scanned' = scanned /\ total' = total /\ stack' = stack /\ path' = path
      /\ stage = "infer" /\ windows # <<>>
  BY DEF RunChunk, walkVars
<1>2. TypeOK /\ FoundInv /\ SlotsInv /\ CountInv /\ AnswerInv
  BY DEF IInv
<1>3. /\ TextOK' /\ ContextsInv' /\ SeenInv' /\ SlotsInv' /\ SlotNodes' = SlotNodes /\ Slot' = Slot
  BY <1>1, BatchFixed
<1>4. PICK size : size = IF Len(windows) < Batch THEN Len(windows) ELSE Batch
  OBVIOUS
<1>5. /\ windows \in Seq(DOMAIN slots) /\ slots \in Seq(Slot) /\ results \in Seq(BOOLEAN)
      /\ found \subseteq Leaves(payload) /\ Len(results) = Len(slots) /\ SlotNodes = Leaves(payload)
      /\ \A k \in DOMAIN slots : results[k] <=> slots[k].node \in found
  BY <1>1, <1>2 DEF TypeOK, FoundInv
<1>6. size \in 1..Len(windows)
  <2>1. Len(windows) \in Nat \ {0}
    BY <1>1, <1>5
  <2>2. QED BY <1>4, <2>1, BatchAssumption
<1>7. \E read \in 0..size :
        \E hit \in SUBSET {k \in 1..read : slots[windows[k]].text = Name} :
          /\ results' = [j \in DOMAIN results |-> results[j] \/ \E k \in hit : windows[k] = j]
          /\ found' = found \cup {slots[windows[k]].node : k \in hit}
          /\ windows' = SubSeq(windows, size + 1, Len(windows))
  BY <1>4 DEF RunChunk, Source
<1>8. PICK hit : /\ hit \subseteq 1..size
                 /\ results' = [j \in DOMAIN results |-> results[j] \/ \E k \in hit : windows[k] = j]
                 /\ found' = found \cup {slots[windows[k]].node : k \in hit}
                 /\ windows' = SubSeq(windows, size + 1, Len(windows))
  <2>1. PICK read \in 0..size :
          \E hit \in SUBSET {k \in 1..read : slots[windows[k]].text = Name} :
            /\ results' = [j \in DOMAIN results |-> results[j] \/ \E k \in hit : windows[k] = j]
            /\ found' = found \cup {slots[windows[k]].node : k \in hit}
            /\ windows' = SubSeq(windows, size + 1, Len(windows))
    BY <1>7
  <2>2. {k \in 1..read : slots[windows[k]].text = Name} \subseteq 1..size
    BY <1>6, <2>1
  <2>3. QED BY <2>1, <2>2, Zenon
<1>9. \A k \in hit : windows[k] \in DOMAIN slots
  BY <1>5, <1>6, <1>8
<1>10. DOMAIN results = DOMAIN slots /\ DOMAIN slots = 1..Len(slots)
  BY <1>5
<1>11. results' \in Seq(BOOLEAN) /\ Len(results') = Len(slots)
  <2>1. results' \in [1..Len(slots) -> BOOLEAN]
    <3>1. \A j \in DOMAIN results : results[j] \in BOOLEAN
      BY <1>5
    <3>2. QED BY <1>8, <1>10, <3>1
  <2>2. Len(slots) \in Nat
    BY <1>5
  <2>3. QED BY <2>1, <2>2
<1>12. windows' \in Seq(DOMAIN slots)
  BY <1>5, <1>6, <1>8
<1>13. found' \subseteq Leaves(payload)
  BY <1>2, <1>5, <1>8, <1>9 DEF SlotsInv
<1>14. \A k \in DOMAIN slots : results'[k] <=> slots[k].node \in found'
  <2> TAKE k \in DOMAIN slots
  <2>1. results'[k] <=> results[k] \/ \E l \in hit : windows[l] = k
    BY <1>8, <1>10
  <2>2. slots[k].node \in found' <=> slots[k].node \in found \/ \E l \in hit : slots[windows[l]].node = slots[k].node
    BY <1>8
  <2>3. \A l \in hit : slots[windows[l]].node = slots[k].node <=> windows[l] = k
    BY <1>2, <1>9 DEF SlotsInv
  <2>4. QED BY <1>5, <2>1, <2>2, <2>3
<1>15. TypeOK'
  <2>1. Top' = Top
    BY <1>1 DEF Top
  <2>2. QED BY <1>1, <1>2, <1>3, <1>11, <1>12, <1>13, <2>1 DEF TypeOK
<1>16. FoundInv'
  BY <1>1, <1>2, <1>3, <1>11, <1>14 DEF FoundInv
<1>17. CountInv'
  BY <1>1, <1>2 DEF CountInv
<1>18. AnswerInv'
  BY <1>1, <1>2 DEF AnswerInv, TypeOK
<1>19. QED BY <1>3, <1>15, <1>16, <1>17, <1>18 DEF IInv

-----------------------------------------------------------------------------
(* The merge. *)

(* Putting a set-aside text back, rewritten where it must be, keeps the    *)
(* invariant.                                                              *)
LEMMA RestoreKeeps ==
  ASSUME IInv, Restore
  PROVE  IInv'
<1>1. /\ payload' = payload /\ text' = text /\ categories' = categories /\ ner' = ner /\ stage' = stage
      /\ windows' = windows /\ results' = results /\ found' = found
      /\ response' = response /\ slots' = slots /\ scanned' = scanned /\ stack' = stack /\ path' = path
      /\ stage = "merge" /\ at < Len(slots) /\ at' = at + 1
  BY DEF Restore, walkVars
<1>2. TypeOK /\ TextOK /\ FoundInv /\ SlotsInv /\ CountInv /\ AnswerInv
  BY DEF IInv
<1>3. /\ TextOK' /\ ContextsInv' /\ SeenInv' /\ SlotsInv' /\ SlotNodes' = SlotNodes /\ Slot' = Slot
  BY <1>1, BatchFixed
<1>4. PICK l : l = at + 1
  OBVIOUS
<1>5. PICK x : x = slots[l].node
  OBVIOUS
<1>6. PICK hits \in BOOLEAN : hits = (slots[l].regex \/ results[l])
  BY DEF IInv
<1>7. PICK t : t = IF hits THEN Rewritten ELSE slots[l].text
  OBVIOUS
<1>8. value' = [value EXCEPT ![x] = t] /\ total' = IF hits THEN total + 1 ELSE total
  <2>1. at' = l
    BY <1>1, <1>4
  <2>2. QED BY <1>5, <1>6, <1>7, <2>1 DEF Restore
<1>9. /\ l \in DOMAIN slots /\ at \in Nat /\ total \in Nat /\ payload \in Payloads
      /\ value \in [Leaves(payload) -> Contents(payload)] /\ text \in [Leaves(payload) -> Contents(payload)]
  BY <1>1, <1>2, <1>4 DEF TypeOK
<1>10. /\ x \in Leaves(payload) /\ slots[l].text = text[x]
       /\ \A k \in DOMAIN slots : slots[k].node \in Leaves(payload) /\ (slots[k].node = x => k = l)
  BY <1>2, <1>5, <1>9 DEF SlotsInv
<1>11. \A k \in DOMAIN slots : value[slots[k].node] =
         IF k > at THEN Empty ELSE IF slots[k].regex \/ results[k] THEN Rewritten ELSE slots[k].text
  BY <1>1, <1>2 DEF FoundInv
<1>12. value[x] = Empty /\ Empty # Rewritten /\ (t = Rewritten <=> hits)
  <2>1. l > at
    BY <1>4, <1>9
  <2>2. text[x] # Rewritten /\ Empty # Rewritten
    BY <1>2, <1>9, <1>10, Unwritten
  <2>3. QED BY <1>5, <1>7, <1>9, <1>10, <1>11, <2>1, <2>2
<1>13. \A y \in Leaves(payload) : value'[y] = IF y = x THEN t ELSE value[y]
  BY <1>8, <1>9
<1>14. t \in Contents(payload)
  <2>1. text[x] \in Contents(payload) /\ Rewritten \in Contents(payload)
    BY <1>9, <1>10 DEF Contents
  <2>2. QED BY <1>7, <1>10, <2>1
<1>15. TypeOK'
  <2>1. value' \in [Leaves(payload) -> Contents(payload)]
    BY <1>8, <1>9, <1>14
  <2>2. total' \in Nat
    BY <1>8, <1>9
  <2>3. Top' = Top /\ at' \in 0..Len(slots)
    BY <1>1, <1>2 DEF Top, TypeOK
  <2>4. QED BY <1>1, <1>2, <1>3, <2>1, <2>2, <2>3 DEF TypeOK
<1>16. CountInv'
  <2>1. IsFiniteSet(Leaves(payload)) /\ DOMAIN value = Leaves(payload) /\ value[x] # Rewritten
    BY <1>9, <1>12, LeavesFinite
  <2>2. Cardinality({y \in Leaves(payload) : value'[y] = Rewritten}) =
          IF t = Rewritten THEN Cardinality({y \in Leaves(payload) : value[y] = Rewritten}) + 1
          ELSE Cardinality({y \in Leaves(payload) : value[y] = Rewritten})
    <3>1. PICK L : L = Leaves(payload)
      OBVIOUS
    <3>2. PICK f, g : f = value /\ g = value'
      OBVIOUS
    <3>3. IsFiniteSet(L) /\ DOMAIN f = L /\ x \in L /\ f[x] # Rewritten /\ g = [f EXCEPT ![x] = t]
      BY <1>8, <1>10, <2>1, <3>1, <3>2
    <3>4. Cardinality({y \in L : g[y] = Rewritten}) =
            IF t = Rewritten THEN Cardinality({y \in L : f[y] = Rewritten}) + 1
            ELSE Cardinality({y \in L : f[y] = Rewritten})
      BY <3>3, Counted
    <3>5. QED BY <3>1, <3>2, <3>4, Zenon
  <2>3. response # "error"
    BY <1>1, <1>2 DEF AnswerInv
  <2>4. total = Cardinality({y \in Leaves(payload) : value[y] = Rewritten})
    BY <1>2, <2>3 DEF CountInv
  <2>5. total' = Cardinality({y \in Leaves(payload) : value'[y] = Rewritten})
    BY <1>8, <1>12, <2>2, <2>4
  <2>6. QED BY <1>1, <2>5 DEF CountInv
<1>17. FoundInv'
  <2>1. \A k \in DOMAIN slots : value'[slots[k].node] =
          IF k > at' THEN Empty ELSE IF slots[k].regex \/ results[k] THEN Rewritten ELSE slots[k].text
    <3> TAKE k \in DOMAIN slots
    <3>1. CASE k = l
      <4>1. ~(k > at')
        BY <1>1, <1>4, <1>9, <3>1
      <4>2. value'[slots[k].node] = t
        BY <1>5, <1>10, <1>13, <3>1
      <4>3. QED BY <1>6, <1>7, <3>1, <4>1, <4>2
    <3>2. CASE k # l
      <4>1. k \in Nat
        BY <1>2 DEF TypeOK
      <4>2. k > at' <=> k > at
        BY <1>1, <1>4, <1>9, <3>2, <4>1
      <4>3. value'[slots[k].node] = value[slots[k].node]
        BY <1>10, <1>13, <3>2
      <4>4. QED BY <1>11, <4>2, <4>3
    <3>3. QED BY <3>1, <3>2
  <2>2. QED BY <1>1, <1>2, <1>3, <2>1 DEF FoundInv
<1>18. AnswerInv'
  BY <1>1, <1>2 DEF AnswerInv, TypeOK
<1>19. QED BY <1>3, <1>15, <1>16, <1>17, <1>18 DEF IInv

(* The merge ends when every set-aside text is back, and the rows are      *)
(* returned.                                                               *)
LEMMA MergedKeeps ==
  ASSUME IInv, Merged
  PROVE  IInv'
<1>1. /\ payload' = payload /\ text' = text /\ categories' = categories /\ ner' = ner /\ stage' = "done"
      /\ value' = value /\ at' = at /\ windows' = windows /\ results' = results /\ response' = "rows"
      /\ found' = found /\ slots' = slots /\ scanned' = scanned /\ total' = total
      /\ stack' = stack /\ path' = path /\ stage = "merge" /\ at = Len(slots)
  BY DEF Merged, nerVars, walkVars
<1>2. TypeOK /\ FoundInv /\ SlotsInv /\ CountInv /\ AnswerInv
  BY DEF IInv
<1>3. /\ TextOK' /\ ContextsInv' /\ SeenInv' /\ SlotsInv' /\ SlotNodes' = SlotNodes /\ Slot' = Slot
      /\ \A x : (RegexHits(text[x], KeyPath(payload, x)))' = RegexHits(text[x], KeyPath(payload, x))
  BY <1>1, BatchFixed
<1>4. TypeOK'
  <2>1. Top' = Top
    BY <1>1 DEF Top
  <2>2. QED BY <1>1, <1>2, <1>3, <2>1 DEF TypeOK
<1>5. FoundInv'
  BY <1>1, <1>2 DEF FoundInv
<1>6. CountInv'
  <2>1. response # "error"
    BY <1>1, <1>2 DEF AnswerInv
  <2>2. QED BY <1>1, <1>2, <2>1 DEF CountInv
<1>7. \A x \in Leaves(payload) :
        value[x] = IF RegexHits(text[x], KeyPath(payload, x)) \/ x \in found THEN Rewritten ELSE text[x]
  <2> TAKE x \in Leaves(payload)
  <2>1. PICK k \in DOMAIN slots : slots[k].node = x
    BY <1>1, <1>2 DEF FoundInv, SlotNodes
  <2>2. ~(k > at)
    BY <1>1, <1>2 DEF TypeOK
  <2>3. value[x] = IF slots[k].regex \/ results[k] THEN Rewritten ELSE slots[k].text
    BY <1>1, <1>2, <2>1, <2>2 DEF FoundInv
  <2>4. results[k] <=> x \in found
    BY <1>1, <1>2, <2>1 DEF FoundInv
  <2>5. slots[k].text = text[x] /\ slots[k].regex = RegexHits(text[x], KeyPath(payload, x))
    BY <1>2, <2>1 DEF SlotsInv
  <2>6. QED BY <2>3, <2>4, <2>5
<1>8. AnswerInv'
  <2>1. scanned = Cardinality(Leaves(payload))
    BY <1>1, <1>2 DEF FoundInv
  <2>2. QED BY <1>1, <1>3, <1>7, <2>1 DEF AnswerInv
<1>9. QED BY <1>3, <1>4, <1>5, <1>6, <1>8 DEF IInv

-----------------------------------------------------------------------------
(* The invariant. *)

(* The walk starts with every row on the stack and no value visited. *)
LEMMA InitIInv == Init => IInv
<1> SUFFICES ASSUME Init PROVE IInv
  OBVIOUS
<1>1. /\ payload \in Payloads /\ ner \in BOOLEAN /\ categories \in Selections
      /\ text \in [Leaves(payload) -> Texts[payload.holds]] /\ value = text /\ stage = "walk"
      /\ path = <<>> /\ slots = <<>> /\ at = 0 /\ windows = <<>> /\ results = <<>> /\ found = {}
      /\ scanned = 0 /\ total = 0 /\ response = "none"
  BY DEF Init
<1> DEFINE rows == payload.rows
           n == Len(rows)
<1>2. rows \in Seq(Nodes) /\ n \in Nat
  BY <1>1, PayloadType
<1>3. stack = [k \in 1..n |-> [type |-> "root", node |-> rows[n + 1 - k]]]
  BY <1>2 DEF Init, Image, Reversed, Root
<1>4. /\ stack \in Seq(Frame) /\ Len(stack) = n /\ DOMAIN stack = 1..n
      /\ \A i \in 1..n : stack[i].type = "root" /\ stack[i].node = rows[n + 1 - i]
  <2> HIDE DEF rows, n
  <2>1. \A k \in 1..n : n + 1 - k \in 1..n
    BY <1>2
  <2>2. DOMAIN rows = 1..n
    BY <1>2 DEF n
  <2>3. \A k \in 1..n : [type |-> "root", node |-> rows[n + 1 - k]] \in Frame
    BY <1>2, <2>1, <2>2 DEF Frame
  <2>4. stack \in [1..n -> Frame]
    BY <1>3, <2>3
  <2>5. stack \in Seq(Frame) /\ Len(stack) = n /\ DOMAIN stack = 1..n
    BY <1>2, <2>4
  <2>6. \A i \in 1..n : stack[i] = [type |-> "root", node |-> rows[n + 1 - i]]
    BY <1>3
  <2>7. QED BY <2>5, <2>6
<1>5. DOMAIN rows = 1..n /\ \A i \in 1..n : n + 1 - i \in 1..n /\ rows[n + 1 - i] \in Nodes
  BY <1>2
<1> HIDE DEF n, rows
<1>6. \A i \in 1..n : IsNode(i) /\ IsRow(payload, stack[i].node) /\ stack[i].node \in Nodes
  BY <1>4, <1>5 DEF IsNode, IsRow, rows
<1>7. TypeOK
  <2>1. text \in [Leaves(payload) -> Contents(payload)]
    BY <1>1 DEF Contents
  <2>2. stack # <<>> => Top.type = "root"
    BY <1>2, <1>4 DEF Top
  <2>3. QED BY <1>1, <1>4, <2>1, <2>2 DEF TypeOK
<1>8. ContextsInv
  <2>1. PICK c : c = [i \in 0..n |-> <<>>]
    OBVIOUS
  <2>2. \A i \in 0..n : c[i] = <<>>
    BY <2>1
  <2>3. \A i \in 1..n : i \in 0..n /\ i - 1 \in 0..n /\ n \in 0..n
    BY <1>2
  <2>4. n \in 0..n
    BY <1>2
  <2>5. c \in [0..n -> Seq(Word)]
    BY <2>1
  <2>6. \A i \in 1..n : KeyWords(stack[i]) = <<>> /\ KeyPath(payload, stack[i].node) = <<>>
    BY <1>1, <1>4, <1>6, KeyPathRow DEF KeyWords
  <2>7. <<>> \o <<>> = <<>>
    OBVIOUS
  <2>8. \A i \in 1..n : c[i - 1] = c[i] /\ c[i] \o KeyWords(stack[i]) = KeyPath(payload, stack[i].node)
    BY <2>2, <2>3, <2>6, <2>7
  <2>9. Contexts(c)
    BY <1>1, <1>4, <1>6, <2>2, <2>4, <2>5, <2>8 DEF Contexts
  <2>10. QED BY <2>9 DEF ContextsInv
<1>9. SeenInv
  <2>1. \A i, j \in 1..n : stack[i].node = stack[j].node => i = j
    <3> TAKE i, j \in 1..n
    <3> HAVE stack[i].node = stack[j].node
    <3>1. rows[n + 1 - i] = rows[n + 1 - j]
      BY <1>4
    <3>2. n + 1 - i = n + 1 - j
      BY <1>1, <1>5, <3>1, TreeAssumption DEF rows
    <3>3. QED BY <1>2, <3>2
  <2>2. \A y \in Nodes : IsRow(payload, y) => OnStack(y)
    <3> TAKE y \in Nodes
    <3> HAVE IsRow(payload, y)
    <3>1. PICK k \in 1..n : rows[k] = y
      BY <1>5 DEF IsRow, rows
    <3>2. n + 1 - k \in 1..n /\ n + 1 - (n + 1 - k) = k
      BY <1>2
    <3>3. stack[n + 1 - k].node = y
      BY <1>4, <3>1, <3>2
    <3>4. QED BY <1>4, <1>6, <3>2, <3>3 DEF OnStack
  <2>3. Seen({})
    BY <1>4, <1>6, <2>1, <2>2 DEF Seen, Placed
  <2>4. SlotNodes = {}
    BY <1>1 DEF SlotNodes
  <2>5. Cardinality({} \cap Leaves(payload)) = 0
    <3>1. {} \cap Leaves(payload) = {}
      OBVIOUS
    <3>2. QED BY <3>1, FS_EmptySet
  <2>6. Handled({})
    BY <1>1, <2>4, <2>5 DEF Handled
  <2>7. QED BY <2>3, <2>6 DEF SeenInv
<1>10. TextOK /\ SlotsInv /\ FoundInv /\ AnswerInv
  BY <1>1 DEF TextOK, SlotsInv, FoundInv, AnswerInv
<1>11. CountInv
  <2>1. {x \in Leaves(payload) : value[x] = Rewritten} = {}
    BY <1>1, <1>10, Unwritten
  <2>2. QED BY <1>1, <2>1, FS_EmptySet DEF CountInv
<1>12. QED BY <1>7, <1>8, <1>9, <1>10, <1>11 DEF IInv

(* Every step keeps the invariant. *)
LEMMA NextKeeps == IInv /\ [Next]_vars => IInv'
<1> SUFFICES ASSUME IInv, [Next]_vars PROVE IInv'
  OBVIOUS
<1>1. CASE PopFrame
  BY <1>1, PopFrameKeeps
<1>2. CASE Visit
  BY <1>2, VisitKeeps
<1>3. CASE Panic
  <2>1. InferError
    BY <1>3 DEF Panic, InferError
  <2>2. QED BY <2>1, ErrorKeeps
<1>4. CASE WalkDone
  BY <1>4, WalkDoneKeeps
<1>5. CASE Tokenize
  BY <1>5, TokenizeKeeps
<1>6. CASE TokenizeFails \/ ChunkFails
  BY <1>6, ErrorKeeps DEF TokenizeFails, ChunkFails
<1>7. CASE Tokenized
  BY <1>7, TokenizedKeeps
<1>8. CASE RunChunk
  BY <1>8, RunChunkKeeps
<1>9. CASE Inferred
  BY <1>9, InferredKeeps
<1>10. CASE Restore
  BY <1>10, RestoreKeeps
<1>11. CASE Merged
  BY <1>11, MergedKeeps
<1>12. CASE UNCHANGED vars
  <2>1. /\ payload' = payload /\ text' = text /\ categories' = categories /\ ner' = ner /\ stage' = stage
        /\ value' = value /\ at' = at /\ windows' = windows /\ results' = results /\ response' = response
        /\ found' = found /\ slots' = slots /\ scanned' = scanned /\ total' = total
        /\ stack' = stack /\ path' = path
    BY <1>12 DEF vars, walkVars, nerVars
  <2>2. TypeOK' /\ TextOK'
    <3>1. Slot' = Slot /\ Top' = Top
      BY <2>1 DEF Slot, Top
    <3>2. QED BY <2>1, <3>1 DEF IInv, TypeOK, TextOK
  <2>3. SlotNodes' = SlotNodes /\ (\A y : (Judged(y))' = Judged(y))
        /\ \A y : (RegexHits(text[y], KeyPath(payload, y)))' = RegexHits(text[y], KeyPath(payload, y))
    BY <2>1, TextFixed DEF SlotNodes
  <2>4. ContextsInv'
    <3>1. \A f : (KeyWords(f))' = KeyWords(f)
      BY <2>1 DEF KeyWords
    <3>2. \A c : Contexts(c) => (Contexts(c))'
      BY <2>1 DEF Contexts, IsNode, KeyWords
    <3>3. QED BY <2>1, <3>2 DEF IInv, ContextsInv
  <2>5. SeenInv'
    <3>1. \A S : Seen(S) => (Seen(S))'
      BY <2>1 DEF Seen, IsNode, OnStack, Placed
    <3>2. \A S : Handled(S) => (Handled(S))'
      BY <2>1, <2>3 DEF Handled
    <3>3. QED BY <2>1, <3>1, <3>2 DEF IInv, SeenInv
  <2>6. SlotsInv' /\ FoundInv' /\ CountInv' /\ AnswerInv'
    BY <2>1, <2>3 DEF IInv, SlotsInv, FoundInv, CountInv, AnswerInv
  <2>7. QED BY <2>2, <2>4, <2>5, <2>6 DEF IInv
<1>13. QED BY <1>1, <1>2, <1>3, <1>4, <1>5, <1>6, <1>7, <1>8, <1>9, <1>10, <1>11, <1>12
       DEF Next, Walk, Infer, Returned

-----------------------------------------------------------------------------
(* The registry: a keyword takes every pattern over the floor. *)

Scored(r) == \A p \in r.patterns : p.score \in Nat

(* A recognizer's patterns have the scores they are built with.            *)
LEMMA Scores ==
  /\ \A n \in Nat : \A F : Pattern(n, F).score \in Nat /\ Format(n, F).score \in Nat
  /\ \A e, c, v, k, P : (\A p \in P : p.score \in Nat) => Scored(Recognizer(e, c, v, k, P))
  /\ \A e, c, P : (\A p \in P : p.score \in Nat) => Scored(Plain(e, c, P)) /\ Scored(Supported(e, c, P))
  /\ \A e, c, v, P : (\A p \in P : p.score \in Nat) => Scored(Checked(e, c, v, P))
BY DEF Pattern, Format, Scored, Recognizer, Plain, Supported, Checked

(* Scores of patterns listed by hand, taken one by one. *)
LEMMA OneToThree ==
  /\ \A p : p.score \in Nat => \A q \in {p} : q.score \in Nat
  /\ \A o, p : o.score \in Nat /\ p.score \in Nat => \A q \in {o, p} : q.score \in Nat
  /\ \A o, p, s : o.score \in Nat /\ p.score \in Nat /\ s.score \in Nat => \A q \in {o, p, s} : q.score \in Nat
OBVIOUS

(* Every recognizer has scores a boost can lift over the floor. *)
LEMMA AllScored == \A r \in all : Scored(r)
<1>1. Scored(email) /\ Scored(date_of_birth) /\ Scored(credit_card) /\ Scored(iban) /\
      Scored(cvv) /\ Scored(phone_number) /\ Scored(ip_address) /\ Scored(url)
  BY Scores, OneToThree DEF email, date_of_birth, credit_card, iban, cvv,
     phone_number, ip_address, url
<1>2. Scored(mac_address) /\ Scored(api_key_strong) /\ Scored(api_key_aws_secret) /\ Scored(jwt_token) /\
      Scored(private_key) /\ Scored(password_hash) /\ Scored(crypto) /\ Scored(ssn_usa)
  BY Scores, OneToThree DEF mac_address, api_key_strong, api_key_aws_secret, jwt_token, private_key,
     password_hash, crypto, ssn_usa
<1>3. Scored(routing_number_usa) /\ Scored(bank_account_usa) /\ Scored(itin_usa) /\ Scored(tax_id_ein_usa) /\
      Scored(passport_usa) /\ Scored(npi_usa) /\ Scored(mbi_usa) /\ Scored(medical_license_usa)
  BY Scores, OneToThree DEF routing_number_usa, bank_account_usa, itin_usa, tax_id_ein_usa, passport_usa,
     npi_usa, mbi_usa, medical_license_usa
<1>4. Scored(driver_license_usa) /\ Scored(sin_can) /\ Scored(vat_number_eur) /\ Scored(bank_account_gbr) /\
      Scored(sort_code_gbr) /\ Scored(nhs_number_gbr) /\ Scored(nino_gbr) /\ Scored(passport_gbr)
  BY Scores, OneToThree DEF driver_license_usa, sin_can, vat_number_eur, bank_account_gbr, sort_code_gbr,
     nhs_number_gbr, nino_gbr, passport_gbr
<1>5. Scored(driving_licence_gbr) /\ Scored(postcode_gbr) /\ Scored(vehicle_registration_gbr) /\ Scored(commercial_register_deu) /\
      Scored(driving_licence_deu) /\ Scored(health_insurance_deu) /\ Scored(id_card_deu) /\ Scored(license_plate_deu)
  BY Scores, OneToThree DEF driving_licence_gbr, postcode_gbr, vehicle_registration_gbr, commercial_register_deu, driving_licence_deu,
     health_insurance_deu, id_card_deu, license_plate_deu
<1>6. Scored(lifetime_physician_number_deu) /\ Scored(medical_practice_id_deu) /\ Scored(passport_deu) /\ Scored(postcode_deu) /\
      Scored(tax_id_deu) /\ Scored(tax_number_deu)
  BY Scores, OneToThree DEF lifetime_physician_number_deu, medical_practice_id_deu, passport_deu, postcode_deu, tax_id_deu,
     tax_number_deu
<1>7. Scored(social_security_deu)
  BY DEF social_security_deu, Scored, Recognizer, Checked, Pattern
<1>8. QED BY <1>1, <1>2, <1>3, <1>4, <1>5, <1>6, <1>7 DEF all

(* However weak the pattern that accepts a text, a keyword of the          *)
(* recognizer next to it or on the way to it makes it count.               *)
LEMMA KeywordSuffices ==
  ASSUME NEW enabled, NEW r \in enabled, Scored(r), r.keywords, NEW t, NEW context,
         Named(r.entity, t, context), Accepts(r, t)
  PROVE  Analyze(t, context, enabled) # {}
<1>1. PICK p \in Matching(r, t) : TRUE
  BY DEF Accepts
<1>2. p.score \in Nat
  BY <1>1 DEF Matching, Scored
<1> DEFINE score == IF Validate(r.validator, t) = "valid" THEN MaxScore ELSE p.score
           res == [by |-> r, score |-> score]
<1>3. res \in Results(t, enabled)
  BY <1>1 DEF Results
<1>4. score \in Nat
  BY <1>2 DEF MaxScore
<1> HIDE DEF score
<1>5. res.by = r /\ res.score = score
  OBVIOUS
<1>6. Boosted(score) >= MinScore
  BY <1>4 DEF Boosted, BoostFloor, MaxScore, MinScore, SimilarityFactor
<1>7. FinalScore(res, t, context) >= MinScore
  <2>1. CASE score < MaxScore
    <3>1. FinalScore(res, t, context) = Boosted(score)
      BY <1>5, <2>1 DEF FinalScore
    <3>2. QED BY <1>6, <3>1
  <2>2. CASE ~(score < MaxScore)
    <3>1. FinalScore(res, t, context) = score
      BY <1>5, <2>2 DEF FinalScore
    <3>2. QED BY <1>4, <2>2, <3>1 DEF MaxScore, MinScore
  <2>3. QED BY <2>1, <2>2
<1> HIDE DEF res
<1>8. res \in Analyze(t, context, enabled)
  BY <1>3, <1>7 DEF Analyze
<1>9. QED BY <1>8

-----------------------------------------------------------------------------
(* Numbers with one digit wrong. *)

(* A function defined from place to place. *)
Carries(f, n, first, step) == f = [i \in 0..n |-> IF i = 0 THEN first ELSE step[<<i, f[i - 1]>>]]

(* What is defined from place to place along a sequence exists.            *)
LEMMA Recursion ==
  ASSUME NEW n \in Nat, NEW V, NEW first \in V, NEW step \in [(1..n) \X V -> V]
  PROVE  \E f \in [0..n -> V] : Carries(f, n, first, step)
<1> DEFINE Body(f, i) == IF i = 0 THEN first ELSE step[<<i, f[i - 1]>>]
           Defines(f, k) == f \in [0..k -> V] /\ \A i \in 0..k : f[i] = Body(f, i)
           Defined == {k \in Nat : k <= n => \E f : Defines(f, k)}
<1>1. 0 \in Defined
  <2>1. Defines([i \in 0..0 |-> first], 0)
    OBVIOUS
  <2> HIDE DEF Defines
  <2>2. QED BY <2>1
<1>2. ASSUME NEW k \in Nat, k \in Defined PROVE k + 1 \in Defined
  <2> SUFFICES ASSUME k + 1 <= n PROVE \E f : Defines(f, k + 1)
    OBVIOUS
  <2>1. PICK f : Defines(f, k)
    BY <1>2
  <2> DEFINE new == step[<<k + 1, f[k]>>]
             g == [i \in 0..(k + 1) |-> IF i = k + 1 THEN new ELSE f[i]]
  <2>2. f[k] \in V /\ k + 1 \in 1..n
    BY <2>1
  <2>3. new \in V
    BY <2>2
  <2>4. g \in [0..(k + 1) -> V]
    BY <2>1, <2>3
  <2>5. ASSUME NEW i \in 0..(k + 1) PROVE g[i] = Body(g, i)
    <3>1. CASE i = k + 1
      <4>1. g[i] = new /\ g[i - 1] = f[k] /\ i # 0
        BY <3>1
      <4>2. QED BY <3>1, <4>1
    <3>2. CASE i \in 0..k
      <4>1. g[i] = f[i] /\ (i # 0 => g[i - 1] = f[i - 1])
        BY <3>2
      <4>2. f[i] = Body(f, i)
        BY <2>1, <3>2
      <4> HIDE DEF g
      <4>3. QED BY <4>1, <4>2
    <3>3. QED BY <3>1, <3>2
  <2> HIDE DEF g
  <2>6. Defines(g, k + 1)
    BY <2>4, <2>5
  <2> HIDE DEF Defines
  <2>7. QED BY <2>6
<1>3. n \in Defined
  <2> HIDE DEF Defined
  <2>1. QED BY <1>1, <1>2, SetInduction
<1>4. PICK f : Defines(f, n)
  BY <1>3
<1>5. f = [i \in 0..n |-> Body(f, i)]
  BY <1>4
<1>6. QED BY <1>4, <1>5 DEF Carries

(* Induction along the places of a sequence. *)
LEMMA Along ==
  ASSUME NEW n \in Nat, NEW S, 0 \in S, \A i \in 1..n : i - 1 \in S => i \in S
  PROVE  0..n \subseteq S
<1> DEFINE T == {i \in Nat : i <= n => i \in S}
<1>1. ASSUME NEW i \in Nat, i \in T PROVE i + 1 \in T
  <2> SUFFICES ASSUME i + 1 <= n PROVE i + 1 \in S
    OBVIOUS
  <2>1. i + 1 \in 1..n /\ i + 1 - 1 = i /\ i \in S
    BY <1>1
  <2>2. QED BY <2>1
<1>2. 0 \in T
  OBVIOUS
<1>3. Nat \subseteq T
  <2> HIDE DEF T
  <2>1. QED BY <1>1, <1>2, SetInduction
<1>4. QED BY <1>3

(* Numbers that are alike but for one digit. *)
DifferAt(s, e, k) ==
  /\ s \in Seq(Nat) /\ e \in Seq(Nat) /\ Len(s) = Len(e) /\ k \in 1..Len(s)
  /\ \A j \in 1..Len(s) : j # k => s[j] = e[j]
  /\ s[k] \in Digit /\ e[k] \in Digit /\ s[k] # e[k]

(* A sum is carried along its terms. *)
LEMMA TotalCarries ==
  ASSUME NEW s \in Seq(Int)
  PROVE  \E f \in [0..Len(s) -> Int] :
           /\ f[0] = 0 /\ \A i \in 1..Len(s) : f[i] = f[i - 1] + s[i]
           /\ Total(s) = f[Len(s)]
<1> DEFINE n == Len(s)
           step == [p \in (1..n) \X Int |-> p[2] + s[p[1]]]
           Sum(f) == f = [i \in 0..n |-> IF i = 0 THEN 0 ELSE f[i - 1] + s[i]]
<1>1. n \in Nat /\ \A i \in 1..n : s[i] \in Int
  OBVIOUS
<1>2. step \in [(1..n) \X Int -> Int]
  BY <1>1
<1>3. PICK g \in [0..n -> Int] : Carries(g, n, 0, step)
  <2> HIDE DEF step
  <2>1. n \in Nat /\ 0 \in Int
    BY <1>1
  <2> HIDE DEF n
  <2>2. QED BY <1>2, <2>1, Recursion, Zenon
<1>4. Sum(g)
  <2>1. ASSUME NEW i \in 0..n, i # 0 PROVE step[<<i, g[i - 1]>>] = g[i - 1] + s[i]
    <3>1. i \in 1..n /\ i - 1 \in 0..n
      BY <2>1, <1>1
    <3>2. g[i - 1] \in Int
      BY <1>3, <3>1
    <3>3. QED BY <3>1, <3>2
  <2>2. QED BY <2>1, <1>3 DEF Carries
<1> DEFINE f == CHOOSE f : Sum(f)
<1>5. Sum(f)
  BY <1>4, Zenon
<1>6. Total(s) = f[n]
  BY DEF Total
<1>7. f = [i \in 0..n |-> IF i = 0 THEN 0 ELSE f[i - 1] + s[i]]
  BY <1>5
<1> HIDE DEF f
<1>8. f[0] = 0 /\ \A i \in 1..n : f[i] = f[i - 1] + s[i]
  BY <1>1, <1>7
<1>9. \A i \in 0..n : f[i] \in Int
  <2> DEFINE S == {i \in 0..n : f[i] \in Int}
  <2>1. 0 \in S /\ \A i \in 1..n : i - 1 \in S => i \in S
    BY <1>1, <1>8
  <2> HIDE DEF S
  <2>2. 0..n \subseteq S
    BY <1>1, <2>1, Along
  <2>3. QED BY <2>2 DEF S
<1>10. f \in [0..n -> Int]
  BY <1>7, <1>9
<1>11. QED BY <1>6, <1>8, <1>10

(* One term changes a sum by as much as it changes itself. *)
LEMMA TotalChanges ==
  ASSUME NEW p \in Seq(Int), NEW q \in Seq(Int), Len(p) = Len(q), NEW k \in 1..Len(p),
         \A j \in 1..Len(p) : j # k => p[j] = q[j]
  PROVE  Total(p) \in Int /\ Total(q) = Total(p) + (q[k] - p[k])
<1> DEFINE n == Len(p)
<1>1. n \in Nat /\ \A i \in 1..n : p[i] \in Int /\ q[i] \in Int
  OBVIOUS
<1>2. PICK f \in [0..n -> Int] : f[0] = 0 /\ (\A i \in 1..n : f[i] = f[i - 1] + p[i]) /\ Total(p) = f[n]
  BY TotalCarries
<1>3. PICK g \in [0..n -> Int] : g[0] = 0 /\ (\A i \in 1..n : g[i] = g[i - 1] + q[i]) /\ Total(q) = g[n]
  BY TotalCarries
<1> DEFINE S == {i \in 0..n : g[i] = f[i] + (IF i < k THEN 0 ELSE q[k] - p[k])}
<1>4. 0 \in S
  BY <1>1, <1>2, <1>3
<1>5. ASSUME NEW i \in 1..n, i - 1 \in S PROVE i \in S
  <2>1. f[i - 1] \in Int /\ g[i - 1] \in Int /\ p[i] \in Int /\ q[i] \in Int /\ p[k] \in Int /\ q[k] \in Int
    <3>1. i - 1 \in 0..n
      BY <1>1
    <3>2. QED BY <1>1, <3>1
  <2>2. f[i] = f[i - 1] + p[i] /\ g[i] = g[i - 1] + q[i]
    BY <1>2, <1>3
  <2>3. g[i - 1] = f[i - 1] + (IF i - 1 < k THEN 0 ELSE q[k] - p[k])
    BY <1>5
  <2>4. CASE i = k
    BY <2>1, <2>2, <2>3, <2>4
  <2>5. CASE i < k
    BY <2>1, <2>2, <2>3, <2>5
  <2>6. CASE i > k
    <3>1. ~(i - 1 < k) /\ ~(i < k) /\ p[i] = q[i]
      <4>1. i \in 1..Len(p) /\ i # k /\ i \in Int /\ k \in Int
        BY <1>1, <2>6
      <4>2. p[i] = q[i]
        BY <4>1
      <4>3. ~(i - 1 < k) /\ ~(i < k)
        BY <2>6, <4>1
      <4>4. QED BY <4>2, <4>3
    <3>2. g[i - 1] = f[i - 1] + (q[k] - p[k])
      BY <2>3, <3>1
    <3>3. g[i] = f[i] + (q[k] - p[k])
      <4> DEFINE x == f[i - 1]
                 u == q[k] - p[k]
      <4>1. x \in Int /\ u \in Int /\ p[i] \in Int
        BY <2>1
      <4>2. g[i] = (x + u) + p[i] /\ f[i] = x + p[i]
        BY <2>2, <3>1, <3>2
      <4> HIDE DEF x, u
      <4>3. g[i] = f[i] + u
        BY <4>1, <4>2
      <4>4. QED BY <4>3 DEF u
    <3>4. QED BY <3>1, <3>3
  <2>7. QED BY <2>4, <2>5, <2>6
<1>6. n \in S
  <2> HIDE DEF S
  <2>1. 0..n \subseteq S
    BY <1>1, <1>4, <1>5, Along
  <2>2. QED BY <1>1, <2>1
<1>7. g[n] = f[n] + (q[k] - p[k])
  BY <1>1, <1>6
<1>8. QED BY <1>1, <1>2, <1>3, <1>7

(* Sums that differ by what the modulus does not divide differ by it. *)
LEMMA Remainders ==
  /\ \A a, b \in Int : (a + b) % 10 = a % 10 => b % 10 = 0
  /\ \A a, b \in Int : (a + b) % 11 = a % 11 => b % 11 = 0
<1>1. ASSUME NEW a \in Int, NEW b \in Int, (a + b) % 10 = a % 10 PROVE b % 10 = 0
  BY <1>1
<1>2. ASSUME NEW a \in Int, NEW b \in Int, (a + b) % 11 = a % 11 PROVE b % 11 = 0
  BY <1>2
<1>3. QED BY <1>1, <1>2

(* A digit's distance to another is divided by neither 10 nor 11. *)
LEMMA DigitDistances ==
  ASSUME NEW a \in Digit, NEW b \in Digit, a # b
  PROVE  /\ (b - a) % 10 # 0
         /\ \A w \in {1, 3, 7} : (b * w - a * w) % 10 # 0
         /\ \A w \in 2..10 : (b * w - a * w) % 11 # 0
         /\ Doubled(a) # Doubled(b) /\ Doubled(a) \in Digit
         /\ DigitSum(a * 1) = a /\ DigitSum(a * 2) = Doubled(a)
<1>1. a \in 0..9 /\ b \in 0..9
  BY DEF Digit
<1>2. (b - a) % 10 # 0 /\ \A w \in {1, 3, 7} : (b * w - a * w) % 10 # 0
  <2>1. (b - a) % 10 # 0 /\ (b * 1 - a * 1) % 10 # 0 /\ (b * 3 - a * 3) % 10 # 0 /\ (b * 7 - a * 7) % 10 # 0
    BY <1>1
  <2>2. QED BY <2>1, Zenon
<1>3. \A w \in 2..10 : (b * w - a * w) % 11 # 0
  <2>1. \A w \in 2..10 : w = 2 \/ w = 3 \/ w = 4 \/ w = 5 \/ w = 6 \/ w = 7 \/ w = 8 \/ w = 9 \/ w = 10
    OBVIOUS
  <2>2. /\ (b * 2 - a * 2) % 11 # 0 /\ (b * 3 - a * 3) % 11 # 0 /\ (b * 4 - a * 4) % 11 # 0
        /\ (b * 5 - a * 5) % 11 # 0 /\ (b * 6 - a * 6) % 11 # 0 /\ (b * 7 - a * 7) % 11 # 0
        /\ (b * 8 - a * 8) % 11 # 0 /\ (b * 9 - a * 9) % 11 # 0 /\ (b * 10 - a * 10) % 11 # 0
    BY <1>1
  <2>3. QED BY <2>1, <2>2, Zenon
<1>4. Doubled(a) # Doubled(b) /\ Doubled(a) \in Digit
  BY <1>1 DEF Doubled, Digit
<1>5. DigitSum(a * 1) = a /\ DigitSum(a * 2) = Doubled(a)
  BY <1>1 DEF DigitSum, Doubled
<1>6. QED BY <1>2, <1>3, <1>4, <1>5

(* Luhn's sum takes each digit, doubled or not, to another digit.          *)
LEMMA LuhnDiffers ==
  ASSUME NEW s, NEW e, NEW k, DifferAt(s, e, k), s \in Seq(Digit), e \in Seq(Digit), LuhnPasses(s)
  PROVE  ~LuhnPasses(e)
<1> DEFINE n == Len(s)
           Term(x, i) == IF (n - i) % 2 = 0 THEN x[i] ELSE Doubled(x[i])
           p == [i \in 1..n |-> Term(s, i)]
           q == [i \in 1..n |-> Term(e, i)]
<1>1. n \in Nat /\ Len(e) = n /\ DOMAIN s = 1..n /\ DOMAIN e = 1..n /\ k \in 1..n
  BY DEF DifferAt
<1>2. \A i \in 1..n : s[i] \in Digit /\ e[i] \in Digit
  BY <1>1
<1>3. \A i \in 1..n : p[i] \in Digit /\ q[i] \in Digit
  <2>1. \A d \in Digit : Doubled(d) \in Digit
    BY DEF Doubled, Digit
  <2>2. QED BY <1>2, <2>1
<1>4. p \in Seq(Int) /\ q \in Seq(Int) /\ Len(p) = n /\ Len(q) = n
  <2>1. \A i \in 1..n : p[i] \in Int /\ q[i] \in Int
    <3>1. Digit \subseteq Int
      BY DEF Digit
    <3> HIDE DEF p, q
    <3>2. QED BY <1>3, <3>1
  <2>2. p = [i \in 1..n |-> p[i]] /\ q = [i \in 1..n |-> q[i]]
    OBVIOUS
  <2> HIDE DEF p, q
  <2>3. QED BY <1>1, <2>1, <2>2
<1>5. \A j \in 1..n : j # k => p[j] = q[j]
  BY DEF DifferAt
<1>6. p[k] # q[k]
  <2>1. s[k] \in Digit /\ e[k] \in Digit /\ s[k] # e[k]
    BY DEF DifferAt
  <2>2. QED BY <1>1, <2>1, DigitDistances
<1>7. Total(p) \in Int /\ Total(q) = Total(p) + (q[k] - p[k])
  <2> HIDE DEF p, q
  <2>1. QED BY <1>1, <1>4, <1>5, TotalChanges
<1>8. LuhnPasses(s) <=> Total(p) % 10 = 0
  BY <1>1 DEF LuhnPasses
<1>9. LuhnPasses(e) <=> Total(q) % 10 = 0
  BY <1>1 DEF LuhnPasses
<1>10. p[k] \in Digit /\ q[k] \in Digit
  BY <1>1, <1>3
<1> HIDE DEF p, q
<1>11. (q[k] - p[k]) % 10 # 0 /\ q[k] - p[k] \in Int
  <2>1. q[k] - p[k] \in Int
    BY <1>10 DEF Digit
  <2>2. QED BY <1>6, <1>10, <2>1, DigitDistances
<1>12. QED BY <1>7, <1>8, <1>9, <1>11, Remainders

(* The texts.                                                              *)

(* What is in a part of a sequence.                                        *)
LEMMA PartIs ==
  ASSUME NEW S, NEW s \in Seq(S), NEW m \in 1..Len(s), NEW n \in m..Len(s)
  PROVE  /\ SubSeq(s, m, n) \in Seq(S) /\ Len(SubSeq(s, m, n)) = n - m + 1
         /\ \A j \in 1..(n - m + 1) : SubSeq(s, m, n)[j] = s[m + j - 1]
<1>1. Len(s) \in Nat /\ m \in Int /\ n \in Int /\ m <= n
  BY LenProperties
<1>2. \A i \in m..n : s[i] \in S
  <2>1. ASSUME NEW i \in m..n PROVE s[i] \in S
    <3>1. i \in 1..Len(s)
      BY <1>1
    <3>2. QED BY <3>1, ElementOfSeq
  <2>2. QED BY <2>1
<1>3. QED BY <1>1, <1>2, SubSeqProperties

(* The places of a part of a sequence. *)
LEMMA PartPlaces ==
  ASSUME NEW a \in Nat, NEW m \in 1..a, NEW n \in m..a, NEW j \in 1..(n - m + 1)
  PROVE  /\ m + j - 1 \in 1..a /\ m + j - 1 \in m..n
         /\ \A k \in 1..a : m + j - 1 = k => j = k - m + 1
OBVIOUS

(* A part of a number differs as the number does, if the digit is in it.   *)
LEMMA PartDiffers ==
  ASSUME NEW s, NEW e, NEW k, DifferAt(s, e, k), NEW m \in 1..Len(s), NEW n \in m..Len(s)
  PROVE  /\ Len(SubSeq(s, m, n)) = n - m + 1 /\ Len(SubSeq(e, m, n)) = n - m + 1
         /\ SubSeq(s, m, n) \in Seq(Nat) /\ SubSeq(e, m, n) \in Seq(Nat)
         /\ \A j \in 1..(n - m + 1) : SubSeq(s, m, n)[j] = s[m + j - 1] /\ SubSeq(e, m, n)[j] = e[m + j - 1]
         /\ k \in m..n => DifferAt(SubSeq(s, m, n), SubSeq(e, m, n), k - m + 1)
         /\ k \notin m..n => SubSeq(s, m, n) = SubSeq(e, m, n)
<1> DEFINE p == SubSeq(s, m, n)
           q == SubSeq(e, m, n)
<1>1. /\ s \in Seq(Nat) /\ e \in Seq(Nat) /\ Len(s) = Len(e) /\ k \in 1..Len(s) /\ Len(s) \in Nat
      /\ \A j \in 1..Len(s) : j # k => s[j] = e[j]
      /\ s[k] \in Digit /\ e[k] \in Digit /\ s[k] # e[k]
  BY LenProperties DEF DifferAt
<1>2. Len(p) = n - m + 1 /\ Len(q) = n - m + 1 /\ p \in Seq(Nat) /\ q \in Seq(Nat)
  <2>1. Len(p) = n - m + 1 /\ p \in Seq(Nat)
    BY <1>1, PartIs
  <2>2. Len(q) = n - m + 1 /\ q \in Seq(Nat)
    BY <1>1, PartIs
  <2>3. QED BY <2>1, <2>2
<1>3. \A j \in 1..(n - m + 1) : p[j] = s[m + j - 1] /\ q[j] = e[m + j - 1]
  BY <1>1, PartIs
<1> HIDE DEF p, q
<1>4. ASSUME k \in m..n PROVE DifferAt(p, q, k - m + 1)
  <2>1. k - m + 1 \in 1..(n - m + 1) /\ m + (k - m + 1) - 1 = k
    BY <1>4, <1>1
  <2>2. p[k - m + 1] = s[k] /\ q[k - m + 1] = e[k]
    BY <1>3, <2>1
  <2>3. ASSUME NEW j \in 1..(n - m + 1), j # k - m + 1 PROVE p[j] = q[j]
    <3>1. m + j - 1 \in 1..Len(s) /\ m + j - 1 # k
      <4>1. /\ m + j - 1 \in 1..Len(s) /\ m + j - 1 \in m..n
            /\ \A i \in 1..Len(s) : m + j - 1 = i => j = i - m + 1
        <5>1. Len(s) \in Nat
          BY <1>1
        <5>2. QED BY <5>1, PartPlaces
      <4>2. QED BY <1>1, <2>3, <4>1, Zenon
    <3>2. QED BY <1>1, <1>3, <3>1
  <2>4. QED BY <1>1, <1>2, <2>1, <2>2, <2>3 DEF DifferAt
<1>5. ASSUME k \notin m..n PROVE p = q
  <2>1. ASSUME NEW j \in 1..(n - m + 1) PROVE p[j] = q[j]
    <3>1. m + j - 1 \in 1..Len(s) /\ m + j - 1 # k
      <4>1. /\ m + j - 1 \in 1..Len(s) /\ m + j - 1 \in m..n
            /\ \A i \in 1..Len(s) : m + j - 1 = i => j = i - m + 1
        <5>1. Len(s) \in Nat
          BY <1>1
        <5>2. QED BY <5>1, PartPlaces
      <4>2. QED BY <1>1, <1>5, <4>1, Zenon
    <3>2. QED BY <1>1, <1>3, <3>1
  <2>2. QED BY <1>2, <2>1, SeqEqual
<1>6. QED BY <1>2, <1>3, <1>4, <1>5 DEF p, q

(* So does its beginning. *)
LEMMA BeginningDiffers ==
  ASSUME NEW s, NEW e, NEW k, DifferAt(s, e, k), NEW n \in 1..Len(s)
  PROVE  /\ Len(SubSeq(s, 1, n)) = n
         /\ \A j \in 1..n : SubSeq(s, 1, n)[j] = s[j] /\ SubSeq(e, 1, n)[j] = e[j]
         /\ k \in 1..n => DifferAt(SubSeq(s, 1, n), SubSeq(e, 1, n), k)
         /\ k \notin 1..n => SubSeq(s, 1, n) = SubSeq(e, 1, n)
<1> DEFINE p == SubSeq(s, 1, n)
           q == SubSeq(e, 1, n)
           m == 1
<1>1. Len(s) \in Nat /\ k \in Nat
  BY LenProperties DEF DifferAt
<1>2. m \in 1..Len(s) /\ n \in m..Len(s)
  BY <1>1
<1>3. p = SubSeq(s, m, n) /\ q = SubSeq(e, m, n)
  OBVIOUS
<1>4. n - m + 1 = n /\ k - m + 1 = k /\ (\A j \in Nat : m + j - 1 = j) /\ m..n = 1..n
  BY <1>1
<1> HIDE DEF m, p, q
<1>5. /\ Len(p) = n - m + 1
      /\ \A j \in 1..(n - m + 1) : p[j] = s[m + j - 1] /\ q[j] = e[m + j - 1]
      /\ k \in m..n => DifferAt(p, q, k - m + 1)
      /\ k \notin m..n => p = q
  BY <1>2, <1>3, PartDiffers
<1>6. \A j \in 1..n : p[j] = s[j] /\ q[j] = e[j]
  <2>1. ASSUME NEW j \in 1..n PROVE p[j] = s[j] /\ q[j] = e[j]
    <3>1. j \in 1..(n - m + 1) /\ m + j - 1 = j
      BY <1>4
    <3>2. p[j] = s[m + j - 1] /\ q[j] = e[m + j - 1]
      BY <1>5, <3>1
    <3>3. QED BY <3>1, <3>2
  <2>2. QED BY <2>1
<1>7. (k \in 1..n => DifferAt(p, q, k)) /\ (k \notin 1..n => p = q) /\ Len(p) = n
  BY <1>4, <1>5
<1>8. QED BY <1>6, <1>7 DEF p, q

(* Places in two sequences joined. *)
LEMMA JoinedPlaces ==
  ASSUME NEW a \in Nat, NEW b \in Nat
  PROVE  /\ \A k \in 1..a : k \in 1..(a + b)
         /\ \A k \in 1..b : a + k \in 1..(a + b)
         /\ \A j \in 1..(a + b) : j \in 1..a \/ \E i \in 1..b : j = a + i
<1>1. ASSUME NEW j \in 1..(a + b), j \notin 1..a PROVE \E i \in 1..b : j = a + i
  <2>1. j - a \in 1..b /\ j = a + (j - a)
    BY <1>1
  <2>2. QED BY <2>1
<1>2. QED BY <1>1

(* What is in two sequences joined.                                        *)
LEMMA JoinIs ==
  ASSUME NEW x \in Seq(Nat), NEW s \in Seq(Nat)
  PROVE  /\ x \o s \in Seq(Nat) /\ Len(x \o s) = Len(x) + Len(s)
         /\ \A j \in 1..Len(x) : (x \o s)[j] = x[j]
         /\ \A j \in 1..Len(s) : (x \o s)[Len(x) + j] = s[j]
<1>1. Len(x) \in Nat /\ Len(s) \in Nat
  BY LenProperties
<1>2. /\ x \o s \in Seq(Nat) /\ Len(x \o s) = Len(x) + Len(s)
      /\ \A i \in 1..(Len(x) + Len(s)) : (x \o s)[i] = IF i <= Len(x) THEN x[i] ELSE s[i - Len(x)]
  BY ConcatProperties
<1> DEFINE p == x \o s
<1> HIDE DEF p
<1>3. ASSUME NEW j \in 1..Len(x) PROVE p[j] = x[j]
  <2>1. j \in 1..(Len(x) + Len(s)) /\ j <= Len(x)
    BY <1>1
  <2>2. QED BY <1>2, <2>1 DEF p
<1>4. ASSUME NEW j \in 1..Len(s) PROVE p[Len(x) + j] = s[j]
  <2> DEFINE i == Len(x) + j
  <2>1. i \in 1..(Len(x) + Len(s)) /\ ~(i <= Len(x)) /\ i - Len(x) = j
    BY <1>1
  <2> HIDE DEF i
  <2>2. p[i] = s[j]
    BY <1>2, <2>1 DEF p
  <2>3. QED BY <2>2 DEF i
<1>5. QED BY <1>2, <1>3, <1>4 DEF p

(* A number behind or before another differs as it does.                   *)
LEMMA JoinDiffers ==
  ASSUME NEW s, NEW e, NEW k, DifferAt(s, e, k), NEW x \in Seq(Nat)
  PROVE  DifferAt(x \o s, x \o e, Len(x) + k) /\ DifferAt(s \o x, e \o x, k)
<1>1. /\ s \in Seq(Nat) /\ e \in Seq(Nat) /\ Len(s) = Len(e) /\ k \in 1..Len(s) /\ Len(s) \in Nat /\ Len(x) \in Nat
      /\ \A j \in 1..Len(s) : j # k => s[j] = e[j]
      /\ s[k] \in Digit /\ e[k] \in Digit /\ s[k] # e[k]
  BY LenProperties DEF DifferAt
<1>2. DifferAt(x \o s, x \o e, Len(x) + k)
  <2> DEFINE p == x \o s
             q == x \o e
             place == Len(x) + k
  <2>1. /\ p \in Seq(Nat) /\ Len(p) = Len(x) + Len(s)
        /\ \A j \in 1..Len(x) : p[j] = x[j]
        /\ \A j \in 1..Len(s) : p[Len(x) + j] = s[j]
    BY <1>1, JoinIs
  <2>2. /\ q \in Seq(Nat) /\ Len(q) = Len(x) + Len(s)
        /\ \A j \in 1..Len(x) : q[j] = x[j]
        /\ \A j \in 1..Len(s) : q[Len(x) + j] = e[j]
    BY <1>1, JoinIs
  <2> HIDE DEF p, q
  <2>3. place \in 1..Len(p) /\ p[place] = s[k] /\ q[place] = e[k]
    <3>1. place \in 1..(Len(x) + Len(s))
      BY <1>1, JoinedPlaces
    <3>2. QED BY <1>1, <2>1, <2>2, <3>1
  <2>4. ASSUME NEW j \in 1..Len(p), j # place PROVE p[j] = q[j]
    <3>1. CASE j \in 1..Len(x)
      BY <2>1, <2>2, <3>1
    <3>2. CASE j \notin 1..Len(x)
      <4>1. PICK i \in 1..Len(s) : j = Len(x) + i
        <5>1. j \in 1..(Len(x) + Len(s))
          BY <2>1
        <5>2. QED BY <1>1, <3>2, <5>1, JoinedPlaces
      <4>2. i # k
        BY <2>4, <4>1
      <4>3. QED BY <1>1, <2>1, <2>2, <4>1, <4>2
    <3>3. QED BY <3>1, <3>2
  <2> HIDE DEF place
  <2>5. DifferAt(p, q, place)
    BY <1>1, <2>1, <2>2, <2>3, <2>4 DEF DifferAt
  <2>6. QED BY <2>5 DEF p, q, place
<1>3. DifferAt(s \o x, e \o x, k)
  <2> DEFINE p == s \o x
             q == e \o x
  <2>1. /\ p \in Seq(Nat) /\ Len(p) = Len(s) + Len(x)
        /\ \A j \in 1..Len(s) : p[j] = s[j]
        /\ \A j \in 1..Len(x) : p[Len(s) + j] = x[j]
    BY <1>1, JoinIs
  <2>2. /\ q \in Seq(Nat) /\ Len(q) = Len(s) + Len(x)
        /\ \A j \in 1..Len(s) : q[j] = e[j]
        /\ \A j \in 1..Len(x) : q[Len(s) + j] = x[j]
    <3>1. /\ q \in Seq(Nat) /\ Len(q) = Len(e) + Len(x)
          /\ \A j \in 1..Len(e) : q[j] = e[j]
          /\ \A j \in 1..Len(x) : q[Len(e) + j] = x[j]
      BY <1>1, JoinIs
    <3>2. QED BY <1>1, <3>1
  <2> HIDE DEF p, q
  <2>3. k \in 1..Len(p) /\ p[k] = s[k] /\ q[k] = e[k]
    <3>1. k \in 1..(Len(s) + Len(x))
      BY <1>1, JoinedPlaces
    <3>2. QED BY <1>1, <2>1, <2>2, <3>1
  <2>4. ASSUME NEW j \in 1..Len(p), j # k PROVE p[j] = q[j]
    <3>1. CASE j \in 1..Len(s)
      BY <1>1, <2>1, <2>2, <2>4, <3>1
    <3>2. CASE j \notin 1..Len(s)
      <4>1. PICK i \in 1..Len(x) : j = Len(s) + i
        <5>1. j \in 1..(Len(s) + Len(x))
          BY <2>1
        <5>2. QED BY <1>1, <3>2, <5>1, JoinedPlaces
      <4>2. QED BY <2>1, <2>2, <4>1
    <3>3. QED BY <3>1, <3>2
  <2>5. DifferAt(p, q, k)
    BY <1>1, <2>1, <2>2, <2>3, <2>4 DEF DifferAt
  <2>6. QED BY <2>5 DEF p, q
<1>4. QED BY <1>2, <1>3

(* Digits are the numbers below ten. *)
LEMMA DigitsAre ==
  /\ \A x \in Nat : IsDigit(x) <=> x \in Digit
  /\ Digit \subseteq Nat
  /\ \A s \in Seq(Digit) : s \in Seq(Nat)
<1>1. (\A x \in Nat : IsDigit(x) <=> x \in Digit) /\ Digit \subseteq Nat
  BY DEF IsDigit, Digit
<1>2. ASSUME NEW s \in Seq(Digit) PROVE s \in Seq(Nat)
  <2>1. Len(s) \in Nat /\ s \in [1..Len(s) -> Digit]
    BY LenProperties
  <2>2. s \in [1..Len(s) -> Nat]
    BY <1>1, <2>1
  <2>3. QED BY <2>1, <2>2
<1>3. QED BY <1>1, <1>2

(* The digits of a text are gathered from character to character.          *)
LEMMA DigitsCarried ==
  ASSUME NEW s \in Seq(Nat)
  PROVE  \E f \in [0..Len(s) -> Seq(Digit)] :
           /\ f[0] = <<>>
           /\ \A i \in 1..Len(s) : f[i] = IF IsDigit(s[i]) THEN Append(f[i - 1], s[i]) ELSE f[i - 1]
           /\ DigitsOf(s) = f[Len(s)]
<1> DEFINE n == Len(s)
           V == Seq(Digit)
           step == [p \in (1..n) \X V |-> IF IsDigit(s[p[1]]) THEN Append(p[2], s[p[1]]) ELSE p[2]]
           Gathers(f) == f = [i \in 0..n |-> IF i = 0 THEN <<>>
                                            ELSE IF IsDigit(s[i]) THEN Append(f[i - 1], s[i]) ELSE f[i - 1]]
<1>1. n \in Nat /\ \A i \in 1..n : s[i] \in Nat /\ (IsDigit(s[i]) => s[i] \in Digit)
  <2>1. \A i \in 1..n : s[i] \in Nat
    BY ElementOfSeq
  <2>2. n \in Nat
    BY LenProperties
  <2>3. QED BY <2>1, <2>2, DigitsAre
<1>2. \A v \in V, i \in 1..n : (IF IsDigit(s[i]) THEN Append(v, s[i]) ELSE v) \in V
  BY <1>1, AppendProperties
<1>3. step \in [(1..n) \X V -> V]
  <2>1. \A p \in (1..n) \X V : p[1] \in 1..n /\ p[2] \in V
    OBVIOUS
  <2> HIDE DEF V
  <2>2. QED BY <1>2, <2>1
<1>4. <<>> \in V
  OBVIOUS
<1> HIDE DEF V
<1>5. PICK g \in [0..n -> V] : Carries(g, n, <<>>, step)
  <2> HIDE DEF step
  <2>1. n \in Nat
    BY <1>1
  <2> HIDE DEF n
  <2>2. QED BY <1>3, <1>4, <2>1, Recursion, Zenon
<1>6. Gathers(g)
  <2>1. ASSUME NEW i \in 0..n, i # 0
        PROVE step[<<i, g[i - 1]>>] = IF IsDigit(s[i]) THEN Append(g[i - 1], s[i]) ELSE g[i - 1]
    <3>1. i \in 1..n /\ i - 1 \in 0..n
      BY <2>1, <1>1
    <3>2. g[i - 1] \in V
      BY <1>5, <3>1
    <3>3. QED BY <3>1, <3>2
  <2>2. QED BY <2>1, <1>5 DEF Carries
<1> DEFINE f == CHOOSE f : Gathers(f)
<1>7. Gathers(f)
  BY <1>6, Zenon
<1>8. DigitsOf(s) = f[n]
  BY DEF DigitsOf
<1>9. f = [i \in 0..n |-> IF i = 0 THEN <<>> ELSE IF IsDigit(s[i]) THEN Append(f[i - 1], s[i]) ELSE f[i - 1]]
  BY <1>7
<1> HIDE DEF f
<1>10. f[0] = <<>> /\ \A i \in 1..n : f[i] = IF IsDigit(s[i]) THEN Append(f[i - 1], s[i]) ELSE f[i - 1]
  <2>1. 0 \in 0..n /\ \A i \in 1..n : i \in 0..n /\ i # 0
    BY <1>1
  <2>2. f[0] = <<>>
    BY <1>9, <2>1
  <2>3. ASSUME NEW i \in 1..n PROVE f[i] = IF IsDigit(s[i]) THEN Append(f[i - 1], s[i]) ELSE f[i - 1]
    <3>1. i \in 0..n /\ i # 0
      BY <2>1
    <3>2. QED BY <1>9, <3>1, Zenon
  <2>4. QED BY <2>2, <2>3
<1>11. \A i \in 0..n : f[i] \in V
  <2> DEFINE S == {i \in 0..n : f[i] \in V}
  <2>1. 0 \in S
    BY <1>1, <1>4, <1>10
  <2>2. ASSUME NEW i \in 1..n, i - 1 \in S PROVE i \in S
    BY <1>2, <1>10, <2>2
  <2> HIDE DEF S
  <2>3. 0..n \subseteq S
    BY <1>1, <2>1, <2>2, Along
  <2>4. QED BY <2>3 DEF S
<1>12. f \in [0..n -> V]
  BY <1>9, <1>11
<1>13. QED BY <1>8, <1>10, <1>12 DEF V

(* One more character leaves numbers that differ in a digit different.     *)
LEMMA AppendDiffers ==
  /\ \A s, e, k : DifferAt(s, e, k) => \A a \in Nat : DifferAt(Append(s, a), Append(e, a), k)
  /\ \A s \in Seq(Nat), a, b \in Digit : a # b => DifferAt(Append(s, a), Append(s, b), Len(s) + 1)
<1>1. \A s \in Seq(Nat), a \in Nat : Append(s, a) = s \o <<a>> /\ <<a>> \in Seq(Nat)
  BY AppendIsConcat
<1>2. ASSUME NEW s, NEW e, NEW k, DifferAt(s, e, k), NEW a \in Nat PROVE DifferAt(Append(s, a), Append(e, a), k)
  <2>1. s \in Seq(Nat) /\ e \in Seq(Nat)
    BY <1>2 DEF DifferAt
  <2>2. DifferAt(s \o <<a>>, e \o <<a>>, k)
    BY <1>1, <1>2, <2>1, JoinDiffers
  <2>3. QED BY <1>1, <2>1, <2>2
<1>3. ASSUME NEW s \in Seq(Nat), NEW a \in Digit, NEW b \in Digit, a # b
      PROVE DifferAt(Append(s, a), Append(s, b), Len(s) + 1)
  <2>1. a \in Nat /\ b \in Nat
    BY DEF Digit
  <2>2. DifferAt(<<a>>, <<b>>, 1)
    BY <1>3, <2>1 DEF DifferAt
  <2>3. DifferAt(s \o <<a>>, s \o <<b>>, Len(s) + 1)
    BY <2>2, JoinDiffers
  <2>4. QED BY <1>1, <2>1, <2>3
<1>4. QED BY <1>2, <1>3

(* Texts that differ in a digit have digits that differ in one.            *)
LEMMA DigitsDiffer ==
  ASSUME NEW s, NEW e, NEW k, DifferAt(s, e, k)
  PROVE  /\ DigitsOf(s) \in Seq(Digit) /\ DigitsOf(e) \in Seq(Digit)
         /\ \E m : DifferAt(DigitsOf(s), DigitsOf(e), m)
<1> DEFINE n == Len(s)
<1>1. /\ s \in Seq(Nat) /\ e \in Seq(Nat) /\ Len(e) = n /\ k \in 1..n /\ n \in Nat
      /\ \A j \in 1..n : j # k => s[j] = e[j]
      /\ s[k] \in Digit /\ e[k] \in Digit /\ s[k] # e[k]
  BY LenProperties DEF DifferAt
<1>2. PICK f \in [0..n -> Seq(Digit)] :
        /\ f[0] = <<>>
        /\ \A i \in 1..n : f[i] = IF IsDigit(s[i]) THEN Append(f[i - 1], s[i]) ELSE f[i - 1]
        /\ DigitsOf(s) = f[n]
  BY <1>1, DigitsCarried
<1>3. PICK g \in [0..n -> Seq(Digit)] :
        /\ g[0] = <<>>
        /\ \A i \in 1..n : g[i] = IF IsDigit(e[i]) THEN Append(g[i - 1], e[i]) ELSE g[i - 1]
        /\ DigitsOf(e) = g[n]
  BY <1>1, DigitsCarried
<1> DEFINE S == {i \in 0..n : IF i < k THEN f[i] = g[i] ELSE \E m : DifferAt(f[i], g[i], m)}
<1>4. 0 \in S
  BY <1>1, <1>2, <1>3
<1>5. ASSUME NEW i \in 1..n, i - 1 \in S PROVE i \in S
  <2>1. i - 1 \in 0..n /\ s[i] \in Nat
    BY <1>1, ElementOfSeq
  <2>2. f[i - 1] \in Seq(Nat)
    <3>1. f[i - 1] \in Seq(Digit)
      BY <1>2, <2>1
    <3>2. QED BY <3>1, DigitsAre
  <2>3. CASE i < k
    <3>1. f[i - 1] = g[i - 1] /\ s[i] = e[i]
      BY <1>1, <1>5, <2>3
    <3>2. QED BY <1>2, <1>3, <2>3, <3>1
  <2>4. CASE i = k
    <3>1. f[i - 1] = g[i - 1]
      BY <1>1, <1>5, <2>4
    <3>2. IsDigit(s[i]) /\ IsDigit(e[i])
      BY <1>1, <2>4, DigitsAre
    <3>3. f[i] = Append(f[i - 1], s[i]) /\ g[i] = Append(f[i - 1], e[i])
      BY <1>2, <1>3, <3>1, <3>2
    <3>4. DifferAt(f[i], g[i], Len(f[i - 1]) + 1)
      BY <1>1, <2>2, <2>4, <3>3, AppendDiffers
    <3>5. QED BY <2>4, <3>4
  <2>5. CASE i > k
    <3>1. s[i] = e[i] /\ ~(i - 1 < k) /\ ~(i < k)
      BY <1>1, <2>5
    <3>2. PICK m : DifferAt(f[i - 1], g[i - 1], m)
      BY <1>5, <3>1
    <3>3. DifferAt(f[i], g[i], m)
      BY <1>2, <1>3, <2>1, <3>1, <3>2, AppendDiffers
    <3>4. QED BY <3>1, <3>3
  <2>6. QED BY <1>1, <2>3, <2>4, <2>5
<1>6. n \in S
  <2> HIDE DEF S
  <2>1. 0..n \subseteq S
    BY <1>1, <1>4, <1>5, Along
  <2>2. QED BY <1>1, <2>1
<1>7. \E m : DifferAt(f[n], g[n], m)
  BY <1>1, <1>6
<1>8. QED BY <1>1, <1>2, <1>3, <1>7

-----------------------------------------------------------------------------
(* Remainders carried from digit to digit. *)

(* The step of mod97. *)
Rest97(a, c) == (a * (IF IsDigit(c) THEN 10 ELSE 100) + c) % 97

(* 97 is a prime: the step keeps remainders apart, and takes digits apart. *)
LEMMA StepsApart ==
  /\ \A a \in 0..96, c \in Nat : Rest97(a, c) \in 0..96
  /\ \A a, b \in 0..96, c \in Nat : a # b => Rest97(a, c) # Rest97(b, c)
  /\ \A a \in 0..96, c, d \in Digit : c # d => Rest97(a, c) # Rest97(a, d)
<1>1. ASSUME NEW a \in 0..96, NEW c \in Nat PROVE Rest97(a, c) \in 0..96
  BY DEF Rest97
<1>2. ASSUME NEW a \in 0..96, NEW b \in 0..96, NEW c \in Nat, a # b PROVE Rest97(a, c) # Rest97(b, c)
  <2>1. CASE IsDigit(c)
    <3>1. (a * 10 + c) % 97 # (b * 10 + c) % 97
      BY <1>2
    <3>2. QED BY <2>1, <3>1 DEF Rest97
  <2>2. CASE ~IsDigit(c)
    <3>1. (a * 100 + c) % 97 # (b * 100 + c) % 97
      BY <1>2
    <3>2. QED BY <2>2, <3>1 DEF Rest97
  <2>3. QED BY <2>1, <2>2
<1>3. ASSUME NEW a \in 0..96, NEW c \in Digit, NEW d \in Digit, c # d PROVE Rest97(a, c) # Rest97(a, d)
  <2>1. IsDigit(c) /\ IsDigit(d) /\ c \in 0..9 /\ d \in 0..9
    BY DigitsAre DEF Digit
  <2>2. (a * 10 + c) % 97 # (a * 10 + d) % 97
    BY <1>3, <2>1
  <2>3. QED BY <2>1, <2>2 DEF Rest97
<1>4. QED BY <1>1, <1>2, <1>3

(* The remainder of a number is carried along it. *)
LEMMA Mod97Carried ==
  ASSUME NEW s \in Seq(Nat)
  PROVE  \E f \in [0..Len(s) -> 0..96] :
           /\ f[0] = 0 /\ \A i \in 1..Len(s) : f[i] = Rest97(f[i - 1], s[i])
           /\ Mod97(s) = f[Len(s)]
<1> DEFINE n == Len(s)
           V == 0..96
           step == [p \in (1..n) \X V |-> Rest97(p[2], s[p[1]])]
           Divides(f) == f = [i \in 0..n |-> IF i = 0 THEN 0
                                            ELSE (f[i - 1] * (IF IsDigit(s[i]) THEN 10 ELSE 100) + s[i]) % 97]
<1>1. n \in Nat /\ \A i \in 1..n : s[i] \in Nat
  BY LenProperties, ElementOfSeq
<1>2. \A v \in V, i \in 1..n : Rest97(v, s[i]) \in V
  BY <1>1, StepsApart
<1>3. step \in [(1..n) \X V -> V]
  <2>1. \A p \in (1..n) \X V : p[1] \in 1..n /\ p[2] \in V
    OBVIOUS
  <2> HIDE DEF V
  <2>2. QED BY <1>2, <2>1
<1>4. 0 \in V
  OBVIOUS
<1> HIDE DEF V
<1>5. PICK g \in [0..n -> V] : Carries(g, n, 0, step)
  <2> HIDE DEF step
  <2>1. n \in Nat
    BY <1>1
  <2> HIDE DEF n
  <2>2. QED BY <1>3, <1>4, <2>1, Recursion, Zenon
<1>6. Divides(g)
  <2>1. ASSUME NEW i \in 0..n, i # 0
        PROVE step[<<i, g[i - 1]>>] = (g[i - 1] * (IF IsDigit(s[i]) THEN 10 ELSE 100) + s[i]) % 97
    <3>1. i \in 1..n /\ i - 1 \in 0..n
      BY <2>1, <1>1
    <3>2. g[i - 1] \in V
      BY <1>5, <3>1
    <3>3. QED BY <3>1, <3>2 DEF Rest97
  <2>2. QED BY <2>1, <1>5 DEF Carries
<1> DEFINE f == CHOOSE f : Divides(f)
<1>7. Divides(f)
  BY <1>6, Zenon
<1>8. Mod97(s) = f[n]
  BY DEF Mod97
<1>9. f = [i \in 0..n |-> IF i = 0 THEN 0 ELSE Rest97(f[i - 1], s[i])]
  BY <1>7 DEF Rest97
<1> HIDE DEF f
<1>10. f[0] = 0 /\ \A i \in 1..n : f[i] = Rest97(f[i - 1], s[i])
  <2>1. 0 \in 0..n /\ \A i \in 1..n : i \in 0..n /\ i # 0
    BY <1>1
  <2>2. f[0] = 0
    BY <1>9, <2>1
  <2>3. ASSUME NEW i \in 1..n PROVE f[i] = Rest97(f[i - 1], s[i])
    <3>1. i \in 0..n /\ i # 0
      BY <2>1
    <3>2. QED BY <1>9, <3>1, Zenon
  <2>4. QED BY <2>2, <2>3
<1>11. \A i \in 0..n : f[i] \in V
  <2> DEFINE S == {i \in 0..n : f[i] \in V}
  <2>1. 0 \in S
    BY <1>1, <1>4, <1>10
  <2>2. ASSUME NEW i \in 1..n, i - 1 \in S PROVE i \in S
    BY <1>2, <1>10, <2>2
  <2> HIDE DEF S
  <2>3. 0..n \subseteq S
    BY <1>1, <2>1, <2>2, Along
  <2>4. QED BY <2>3 DEF S
<1>12. f \in [0..n -> V]
  BY <1>9, <1>11
<1>13. QED BY <1>8, <1>10, <1>12 DEF V

(* Once apart, the remainders of two numbers stay apart. *)
LEMMA Mod97Differs ==
  ASSUME NEW s, NEW e, NEW k, DifferAt(s, e, k)
  PROVE  Mod97(s) # Mod97(e)
<1> DEFINE n == Len(s)
<1>1. /\ s \in Seq(Nat) /\ e \in Seq(Nat) /\ Len(e) = n /\ k \in 1..n /\ n \in Nat
      /\ \A j \in 1..n : j # k => s[j] = e[j]
      /\ s[k] \in Digit /\ e[k] \in Digit /\ s[k] # e[k]
  BY LenProperties DEF DifferAt
<1>2. PICK f \in [0..n -> 0..96] :
        f[0] = 0 /\ (\A i \in 1..n : f[i] = Rest97(f[i - 1], s[i])) /\ Mod97(s) = f[n]
  BY <1>1, Mod97Carried
<1>3. PICK g \in [0..n -> 0..96] :
        g[0] = 0 /\ (\A i \in 1..n : g[i] = Rest97(g[i - 1], e[i])) /\ Mod97(e) = g[n]
  BY <1>1, Mod97Carried
<1> DEFINE S == {i \in 0..n : IF i < k THEN f[i] = g[i] ELSE f[i] # g[i]}
<1>4. 0 \in S
  BY <1>1, <1>2, <1>3
<1>5. ASSUME NEW i \in 1..n, i - 1 \in S PROVE i \in S
  <2>1. i - 1 \in 0..n /\ s[i] \in Nat /\ f[i - 1] \in 0..96 /\ g[i - 1] \in 0..96
    <3>1. i - 1 \in 0..n
      BY <1>1
    <3>2. QED BY <1>1, <1>2, <1>3, <3>1, ElementOfSeq
  <2>2. f[i] = Rest97(f[i - 1], s[i]) /\ g[i] = Rest97(g[i - 1], e[i])
    BY <1>2, <1>3
  <2>3. CASE i < k
    <3>1. f[i - 1] = g[i - 1] /\ s[i] = e[i]
      BY <1>1, <1>5, <2>3
    <3>2. QED BY <2>2, <2>3, <3>1
  <2>4. CASE i = k
    <3>1. f[i - 1] = g[i - 1]
      BY <1>1, <1>5, <2>4
    <3>2. f[i] # g[i]
      <4>1. s[i] \in Digit /\ e[i] \in Digit /\ s[i] # e[i]
        BY <1>1, <2>4
      <4>2. QED BY <2>1, <2>2, <3>1, <4>1, StepsApart
    <3>3. QED BY <1>1, <2>4, <3>2
  <2>5. CASE i > k
    <3>1. s[i] = e[i] /\ ~(i - 1 < k) /\ ~(i < k)
      BY <1>1, <2>5
    <3>2. f[i - 1] # g[i - 1]
      BY <1>5, <3>1
    <3>3. f[i] # g[i]
      BY <2>1, <2>2, <3>1, <3>2, StepsApart
    <3>4. QED BY <3>1, <3>3
  <2>6. QED BY <1>1, <2>3, <2>4, <2>5
<1>6. n \in S
  <2> HIDE DEF S
  <2>1. 0..n \subseteq S
    BY <1>1, <1>4, <1>5, Along
  <2>2. n \in 0..n
    BY <1>1
  <2>3. QED BY <2>1, <2>2
<1>7. f[n] # g[n]
  BY <1>1, <1>6
<1>8. QED BY <1>2, <1>3, <1>7

(* The step of ISO 7064. *)
Product11(a, d) == LET sum == (d + a) % 10 IN (2 * (IF sum = 0 THEN 10 ELSE sum)) % 11

(* The step keeps products apart, and takes digits apart. *)
LEMMA ProductsApart ==
  /\ \A a \in 1..10, d \in Digit : Product11(a, d) \in 1..10
  /\ \A a, b \in 1..10, d \in Digit : a # b => Product11(a, d) # Product11(b, d)
  /\ \A a \in 1..10, c, d \in Digit : c # d => Product11(a, c) # Product11(a, d)
<1> DEFINE Twice(t) == (2 * (IF t = 0 THEN 10 ELSE t)) % 11
<1>1. \A t \in 0..9 : Twice(t) \in 1..10
  OBVIOUS
<1>2. \A t, u \in 0..9 : t # u => Twice(t) # Twice(u)
  OBVIOUS
<1>3. \A a \in 1..10, d \in 0..9 : (d + a) % 10 \in 0..9
  OBVIOUS
<1>4. \A a, b \in 1..10, d \in 0..9 : a # b => (d + a) % 10 # (d + b) % 10
  OBVIOUS
<1>5. \A a \in 1..10, c, d \in 0..9 : c # d => (c + a) % 10 # (d + a) % 10
  OBVIOUS
<1>6. \A a, d : Product11(a, d) = Twice((d + a) % 10)
  BY DEF Product11
<1> HIDE DEF Twice
<1>7. QED BY <1>1, <1>2, <1>3, <1>4, <1>5, <1>6 DEF Digit

(* The product of a number's first ten digits is carried along them.       *)
LEMMA ProductCarried ==
  ASSUME NEW s \in Seq(Digit), Len(s) >= 10
  PROVE  \E f \in [0..10 -> 1..10] :
           /\ f[0] = 10 /\ \A i \in 1..10 : f[i] = Product11(f[i - 1], s[i])
           /\ IsoProduct(s) = f[10]
<1> DEFINE V == 1..10
           step == [p \in (1..10) \X V |-> Product11(p[2], s[p[1]])]
           Multiplies(f) == f = [i \in 0..10 |-> IF i = 0 THEN 10
                                                 ELSE LET sum == (s[i] + f[i - 1]) % 10
                                                      IN (2 * (IF sum = 0 THEN 10 ELSE sum)) % 11]
<1>1. \A i \in 1..10 : s[i] \in Digit
  <2>1. ASSUME NEW i \in 1..10 PROVE s[i] \in Digit
    <3>1. Len(s) \in Nat
      BY LenProperties
    <3>2. i \in 1..Len(s)
      BY <3>1
    <3>3. QED BY <3>2, ElementOfSeq
  <2>2. QED BY <2>1
<1>2. \A v \in V, i \in 1..10 : Product11(v, s[i]) \in V
  BY <1>1, ProductsApart
<1>3. step \in [(1..10) \X V -> V]
  <2>1. \A p \in (1..10) \X V : p[1] \in 1..10 /\ p[2] \in V
    OBVIOUS
  <2> HIDE DEF V
  <2>2. QED BY <1>2, <2>1
<1>4. 10 \in V
  OBVIOUS
<1> HIDE DEF V
<1>5. PICK g \in [0..10 -> V] : Carries(g, 10, 10, step)
  <2> HIDE DEF step
  <2>1. 10 \in Nat
    OBVIOUS
  <2>2. QED BY <1>3, <1>4, <2>1, Recursion, Zenon
<1>6. Multiplies(g)
  <2>1. ASSUME NEW i \in 0..10, i # 0
        PROVE step[<<i, g[i - 1]>>] = LET sum == (s[i] + g[i - 1]) % 10
                                      IN (2 * (IF sum = 0 THEN 10 ELSE sum)) % 11
    <3>1. i \in 1..10 /\ i - 1 \in 0..10
      BY <2>1
    <3>2. g[i - 1] \in V
      BY <1>5, <3>1
    <3>3. QED BY <3>1, <3>2 DEF Product11
  <2>2. QED BY <2>1, <1>5 DEF Carries
<1> DEFINE f == CHOOSE f : Multiplies(f)
<1>7. Multiplies(f)
  BY <1>6, Zenon
<1>8. IsoProduct(s) = f[10]
  BY DEF IsoProduct
<1>9. f = [i \in 0..10 |-> IF i = 0 THEN 10 ELSE Product11(f[i - 1], s[i])]
  BY <1>7 DEF Product11
<1> HIDE DEF f
<1>10. f[0] = 10 /\ \A i \in 1..10 : f[i] = Product11(f[i - 1], s[i])
  <2>1. 0 \in 0..10 /\ \A i \in 1..10 : i \in 0..10 /\ i # 0
    OBVIOUS
  <2>2. f[0] = 10
    BY <1>9, <2>1
  <2>3. ASSUME NEW i \in 1..10 PROVE f[i] = Product11(f[i - 1], s[i])
    <3>1. i \in 0..10 /\ i # 0
      BY <2>1
    <3>2. QED BY <1>9, <3>1, Zenon
  <2>4. QED BY <2>2, <2>3
<1>11. \A i \in 0..10 : f[i] \in V
  <2> DEFINE S == {i \in 0..10 : f[i] \in V}
  <2>1. 0 \in S
    BY <1>4, <1>10
  <2>2. ASSUME NEW i \in 1..10, i - 1 \in S PROVE i \in S
    BY <1>2, <1>10, <2>2
  <2> HIDE DEF S
  <2>3. 0..10 \subseteq S
    BY <2>1, <2>2, Along
  <2>4. QED BY <2>3 DEF S
<1>12. f \in [0..10 -> V]
  BY <1>9, <1>11
<1>13. QED BY <1>8, <1>10, <1>12 DEF V

(* Products are apart if one of the first ten digits is another.           *)
LEMMA ProductDiffers ==
  ASSUME NEW s \in Seq(Digit), NEW e \in Seq(Digit), NEW k, DifferAt(s, e, k), Len(s) >= 10
  PROVE  /\ IsoProduct(s) \in 1..10 /\ IsoProduct(e) \in 1..10
         /\ IsoProduct(s) = IsoProduct(e) <=> k > 10
<1>1. /\ Len(s) = Len(e) /\ k \in 1..Len(s) /\ Len(s) \in Nat
      /\ \A j \in 1..Len(s) : j # k => s[j] = e[j]
      /\ s[k] # e[k]
  BY LenProperties DEF DifferAt
<1>2. \A i \in 1..10 : i \in 1..Len(s) /\ s[i] \in Digit /\ e[i] \in Digit
  <2>1. ASSUME NEW i \in 1..10 PROVE i \in 1..Len(s) /\ s[i] \in Digit /\ e[i] \in Digit
    <3>1. i \in 1..Len(s)
      BY <1>1
    <3>2. QED BY <1>1, <3>1, ElementOfSeq
  <2>2. QED BY <2>1
<1>3. PICK f \in [0..10 -> 1..10] :
        f[0] = 10 /\ (\A i \in 1..10 : f[i] = Product11(f[i - 1], s[i])) /\ IsoProduct(s) = f[10]
  BY ProductCarried
<1>4. PICK g \in [0..10 -> 1..10] :
        g[0] = 10 /\ (\A i \in 1..10 : g[i] = Product11(g[i - 1], e[i])) /\ IsoProduct(e) = g[10]
  <2>1. Len(e) >= 10
    BY <1>1
  <2>2. QED BY <2>1, ProductCarried
<1> DEFINE S == {i \in 0..10 : IF i < k THEN f[i] = g[i] ELSE f[i] # g[i]}
<1>5. 0 \in S
  BY <1>1, <1>3, <1>4
<1>6. ASSUME NEW i \in 1..10, i - 1 \in S PROVE i \in S
  <2>1. f[i - 1] \in 1..10 /\ g[i - 1] \in 1..10
    <3>1. i - 1 \in 0..10
      OBVIOUS
    <3>2. QED BY <1>3, <1>4, <3>1
  <2>2. f[i] = Product11(f[i - 1], s[i]) /\ g[i] = Product11(g[i - 1], e[i])
    BY <1>3, <1>4
  <2>3. CASE i < k
    <3>1. i - 1 < k /\ i # k
      BY <1>1, <2>3
    <3>2. f[i - 1] = g[i - 1] /\ s[i] = e[i]
      BY <1>1, <1>2, <1>6, <3>1
    <3>3. QED BY <2>2, <2>3, <3>2
  <2>4. CASE i = k
    <3>1. f[i - 1] = g[i - 1]
      BY <1>1, <1>6, <2>4
    <3>2. s[i] \in Digit /\ e[i] \in Digit /\ s[i] # e[i]
      BY <1>1, <1>2, <2>4
    <3>3. f[i] # g[i]
      BY <2>1, <2>2, <3>1, <3>2, ProductsApart
    <3>4. QED BY <1>1, <2>4, <3>3
  <2>5. CASE i > k
    <3>1. ~(i - 1 < k) /\ ~(i < k) /\ i # k
      BY <1>1, <2>5
    <3>2. s[i] = e[i] /\ s[i] \in Digit
      BY <1>1, <1>2, <3>1
    <3>3. f[i - 1] # g[i - 1]
      BY <1>6, <3>1
    <3>4. f[i] # g[i]
      BY <2>1, <2>2, <3>2, <3>3, ProductsApart
    <3>5. QED BY <3>1, <3>4
  <2>6. QED BY <1>1, <2>3, <2>4, <2>5
<1>7. 10 \in S
  <2> HIDE DEF S
  <2>1. 0..10 \subseteq S
    BY <1>5, <1>6, Along
  <2>2. QED BY <2>1
<1>8. f[10] = g[10] <=> k > 10
  BY <1>1, <1>7
<1>9. QED BY <1>3, <1>4, <1>8

-----------------------------------------------------------------------------
(* Weighted sums. *)

(* The weights that the schemes have for a place. *)
LEMMA Weights ==
  /\ \A i \in Nat \ {0} : Weight(<<3, 7, 1>>, i) \in {1, 3, 7} /\ Weight(<<7, 3, 1>>, i) \in {1, 3, 7}
  /\ \A i \in Nat \ {0} : Weight(<<1, 2>>, i) \in {1, 2}
  /\ \A i \in 1..9 : Weight(<<10, 9, 8, 7, 6, 5, 4, 3, 2>>, i) \in 2..10
<1>1. ASSUME NEW i \in Nat \ {0}
      PROVE Weight(<<3, 7, 1>>, i) \in {1, 3, 7} /\ Weight(<<7, 3, 1>>, i) \in {1, 3, 7}
  <2>1. (i - 1) % 3 = 0 \/ (i - 1) % 3 = 1 \/ (i - 1) % 3 = 2
    OBVIOUS
  <2>2. Len(<<3, 7, 1>>) = 3 /\ Len(<<7, 3, 1>>) = 3
    OBVIOUS
  <2>3. QED BY <2>1, <2>2 DEF Weight
<1>2. ASSUME NEW i \in Nat \ {0} PROVE Weight(<<1, 2>>, i) \in {1, 2}
  <2>1. (i - 1) % 2 = 0 \/ (i - 1) % 2 = 1
    OBVIOUS
  <2>2. Len(<<1, 2>>) = 2
    OBVIOUS
  <2>3. QED BY <2>1, <2>2 DEF Weight
<1>3. ASSUME NEW i \in 1..9 PROVE Weight(<<10, 9, 8, 7, 6, 5, 4, 3, 2>>, i) \in 2..10
  <2> DEFINE w == <<10, 9, 8, 7, 6, 5, 4, 3, 2>>
  <2>1. Len(w) = 9 /\ (i - 1) % 9 = i - 1
    OBVIOUS
  <2>2. Weight(w, i) = w[i]
    <3> HIDE DEF w
    <3>1. QED BY <2>1 DEF Weight
  <2>3. i = 1 \/ i = 2 \/ i = 3 \/ i = 4 \/ i = 5 \/ i = 6 \/ i = 7 \/ i = 8 \/ i = 9
    OBVIOUS
  <2>4. w[i] \in 2..10
    BY <2>3
  <2>5. QED BY <2>2, <2>4
<1>4. QED BY <1>1, <1>2, <1>3

(* A weighted sum changes by the weighted change of the digit.             *)
LEMMA WeightedDiffers ==
  ASSUME NEW s, NEW e, NEW k, DifferAt(s, e, k), NEW w, \A i \in 1..Len(s) : Weight(w, i) \in Nat
  PROVE  /\ Weighted(s, w) \in Int
         /\ Weighted(e, w) = Weighted(s, w) + (e[k] * Weight(w, k) - s[k] * Weight(w, k))
<1> DEFINE n == Len(s)
           p == [i \in 1..n |-> s[i] * Weight(w, i)]
           q == [i \in 1..n |-> e[i] * Weight(w, i)]
<1>1. /\ s \in Seq(Nat) /\ e \in Seq(Nat) /\ Len(e) = n /\ k \in 1..n /\ n \in Nat
      /\ DOMAIN s = 1..n /\ DOMAIN e = 1..n
      /\ \A j \in 1..n : j # k => s[j] = e[j]
  BY LenProperties DEF DifferAt
<1>2. \A i \in 1..n : p[i] \in Int /\ q[i] \in Int
  <2>1. ASSUME NEW i \in 1..n PROVE p[i] \in Int /\ q[i] \in Int
    <3>1. s[i] \in Nat /\ e[i] \in Nat /\ Weight(w, i) \in Nat
      BY <1>1, ElementOfSeq
    <3>2. QED BY <3>1
  <2>2. QED BY <2>1
<1>3. p \in Seq(Int) /\ q \in Seq(Int) /\ Len(p) = n /\ Len(q) = n
  <2>1. p = [i \in 1..n |-> p[i]] /\ q = [i \in 1..n |-> q[i]]
    OBVIOUS
  <2> HIDE DEF p, q
  <2>2. QED BY <1>1, <1>2, <2>1
<1>4. \A j \in 1..n : j # k => p[j] = q[j]
  BY <1>1
<1>5. Weighted(s, w) = Total(p) /\ Weighted(e, w) = Total(q)
  BY <1>1 DEF Weighted
<1>6. p[k] = s[k] * Weight(w, k) /\ q[k] = e[k] * Weight(w, k)
  BY <1>1
<1> HIDE DEF p, q
<1>7. Total(p) \in Int /\ Total(q) = Total(p) + (q[k] - p[k])
  BY <1>1, <1>3, <1>4, TotalChanges
<1>8. QED BY <1>5, <1>6, <1>7

(* So does a cross sum, where the weights are one and two.                 *)
LEMMA CrossWeightedDiffers ==
  ASSUME NEW s, NEW e, NEW k, DifferAt(s, e, k)
  PROVE  /\ CrossWeighted(s, <<1, 2>>) \in Int /\ CrossWeighted(e, <<1, 2>>) \in Int
         /\ CrossWeighted(s, <<1, 2>>) % 10 # CrossWeighted(e, <<1, 2>>) % 10
<1> DEFINE n == Len(s)
           w == <<1, 2>>
           p == [i \in 1..n |-> DigitSum(s[i] * Weight(w, i))]
           q == [i \in 1..n |-> DigitSum(e[i] * Weight(w, i))]
<1>1. /\ s \in Seq(Nat) /\ e \in Seq(Nat) /\ Len(e) = n /\ k \in 1..n /\ n \in Nat
      /\ DOMAIN s = 1..n /\ DOMAIN e = 1..n
      /\ \A j \in 1..n : j # k => s[j] = e[j]
      /\ s[k] \in Digit /\ e[k] \in Digit /\ s[k] # e[k]
  BY LenProperties DEF DifferAt
<1>2. \A i \in 1..n : Weight(w, i) \in {1, 2}
  BY <1>1, Weights
<1>3. \A i \in 1..n : p[i] \in Int /\ q[i] \in Int
  <2>1. \A m \in Nat : DigitSum(m) \in Int
    BY DEF DigitSum
  <2>2. ASSUME NEW i \in 1..n PROVE p[i] \in Int /\ q[i] \in Int
    <3>1. s[i] \in Nat /\ e[i] \in Nat /\ Weight(w, i) \in Nat
      BY <1>1, <1>2, ElementOfSeq
    <3>2. s[i] * Weight(w, i) \in Nat /\ e[i] * Weight(w, i) \in Nat
      BY <3>1
    <3>3. QED BY <2>1, <3>2
  <2>3. QED BY <2>2
<1>4. p \in Seq(Int) /\ q \in Seq(Int) /\ Len(p) = n /\ Len(q) = n
  <2>1. p = [i \in 1..n |-> p[i]] /\ q = [i \in 1..n |-> q[i]]
    OBVIOUS
  <2> HIDE DEF p, q
  <2>2. QED BY <1>1, <1>3, <2>1
<1>5. \A j \in 1..n : j # k => p[j] = q[j]
  BY <1>1
<1>6. CrossWeighted(s, w) = Total(p) /\ CrossWeighted(e, w) = Total(q)
  BY <1>1 DEF CrossWeighted
<1>7. p[k] = DigitSum(s[k] * Weight(w, k)) /\ q[k] = DigitSum(e[k] * Weight(w, k))
  BY <1>1
<1> HIDE DEF p, q
<1>8. Total(p) \in Int /\ Total(q) \in Int /\ Total(q) = Total(p) + (q[k] - p[k])
  <2>1. Total(p) \in Int /\ Total(q) = Total(p) + (q[k] - p[k])
    BY <1>1, <1>4, <1>5, TotalChanges
  <2>2. QED BY <1>1, <1>3, <2>1
<1>9. p[k] \in Digit /\ q[k] \in Digit /\ p[k] # q[k]
  <2>1. CASE Weight(w, k) = 1
    <3>1. p[k] = s[k] /\ q[k] = e[k]
      BY <1>1, <1>7, <2>1, DigitDistances
    <3>2. QED BY <1>1, <3>1
  <2>2. CASE Weight(w, k) = 2
    <3>1. p[k] = Doubled(s[k]) /\ q[k] = Doubled(e[k])
      BY <1>1, <1>7, <2>2, DigitDistances
    <3>2. QED BY <1>1, <3>1, DigitDistances
  <2>3. QED BY <1>1, <1>2, <2>1, <2>2
<1>10. (q[k] - p[k]) % 10 # 0 /\ q[k] - p[k] \in Int
  <2>1. q[k] - p[k] \in Int
    BY <1>9 DEF Digit
  <2>2. QED BY <1>9, <2>1, DigitDistances
<1>11. QED BY <1>6, <1>8, <1>10, Remainders

-----------------------------------------------------------------------------
(* The schemes. *)

(* Luhn's sum rejects a misprint of a card, a SIN and an NPI.              *)
LEMMA LuhnRejects ==
  ASSUME NEW c, NEW e, NEW k, DifferAt(c, e, k)
  PROVE  /\ Luhn(c) = "valid" => Luhn(e) = "invalid"
         /\ LuhnSinCan(c) = "valid" => LuhnSinCan(e) = "invalid"
         /\ NpiUsa(c) = "valid" => NpiUsa(e) = "invalid"
<1> DEFINE s == DigitsOf(c)
           t == DigitsOf(e)
<1>1. s \in Seq(Digit) /\ t \in Seq(Digit)
  BY DigitsDiffer
<1>2. PICK m : DifferAt(s, t, m)
  BY DigitsDiffer
<1> HIDE DEF s, t
<1>3. LuhnPasses(s) => ~LuhnPasses(t)
  BY <1>1, <1>2, LuhnDiffers
<1>4. LuhnPasses(NpiPrefix \o s) => ~LuhnPasses(NpiPrefix \o t)
  <2>1. NpiPrefix \in Seq(Nat) /\ NpiPrefix \in Seq(Digit)
    BY DEF NpiPrefix, Digit
  <2>2. DifferAt(NpiPrefix \o s, NpiPrefix \o t, Len(NpiPrefix) + m)
    BY <1>2, <2>1, JoinDiffers
  <2>3. NpiPrefix \o s \in Seq(Digit) /\ NpiPrefix \o t \in Seq(Digit)
    BY <1>1, <2>1, ConcatProperties
  <2>4. QED BY <2>2, <2>3, LuhnDiffers
<1>5. Luhn(c) = "valid" => Luhn(e) = "invalid"
  BY <1>3 DEF Luhn, Verdict, s, t
<1>6. LuhnSinCan(c) = "valid" => LuhnSinCan(e) = "invalid"
  BY <1>3 DEF LuhnSinCan, Verdict, s, t
<1>7. NpiUsa(c) = "valid" => NpiUsa(e) = "invalid"
  BY <1>4 DEF NpiUsa, Verdict, s, t
<1>8. QED BY <1>5, <1>6, <1>7

(* The weights 3, 7 and 1 have no factor in common with 10.                *)
LEMMA AbaRejects ==
  ASSUME NEW c, NEW e, NEW k, DifferAt(c, e, k), AbaRoutingUsa(c) = "valid"
  PROVE  AbaRoutingUsa(e) = "invalid"
<1> DEFINE s == DigitsOf(c)
           t == DigitsOf(e)
           w == <<3, 7, 1>>
<1>1. PICK m : DifferAt(s, t, m)
  BY DigitsDiffer
<1> HIDE DEF s, t
<1>2. m \in Nat \ {0} /\ s[m] \in Digit /\ t[m] \in Digit /\ s[m] # t[m] /\ Len(s) \in Nat
  BY <1>1, LenProperties DEF DifferAt
<1>3. \A i \in 1..Len(s) : Weight(w, i) \in Nat
  <2>1. \A i \in 1..Len(s) : i \in Nat \ {0}
    BY <1>2
  <2>2. \A x \in {1, 3, 7} : x \in Nat
    OBVIOUS
  <2>3. QED BY <2>1, <2>2, Weights
<1>4. /\ Weighted(s, w) \in Int
      /\ Weighted(t, w) = Weighted(s, w) + (t[m] * Weight(w, m) - s[m] * Weight(w, m))
  BY <1>1, <1>3, WeightedDiffers
<1> DEFINE change == t[m] * Weight(w, m) - s[m] * Weight(w, m)
<1>5. change % 10 # 0 /\ change \in Int
  <2>1. Weight(w, m) \in {1, 3, 7}
    BY <1>2, Weights
  <2>2. change \in Int
    <3>1. s[m] \in Int /\ t[m] \in Int
      BY <1>2 DEF Digit
    <3>2. Weight(w, m) \in Int
      BY <2>1
    <3> HIDE DEF w
    <3>3. QED BY <3>1, <3>2
  <2>3. QED BY <1>2, <2>1, <2>2, DigitDistances
<1> HIDE DEF change
<1>6. Weighted(s, w) % 10 # Weighted(t, w) % 10
  BY <1>4, <1>5, Remainders DEF change
<1> HIDE DEF w
<1>7. Weighted(s, w) % 10 = 0
  BY DEF AbaRoutingUsa, Verdict, s, w
<1>8. QED BY <1>6, <1>7 DEF AbaRoutingUsa, Verdict, t, w

(* The complement of a remainder tells it. *)
LEMMA Complements ==
  /\ \A a, b \in Int : (11 - (a % 11)) % 11 = (11 - (b % 11)) % 11 => a % 11 = b % 11
  /\ \A a, b \in 1..10 : (11 - a) % 10 = (11 - b) % 10 => a = b
<1>1. ASSUME NEW a \in Int, NEW b \in Int, (11 - (a % 11)) % 11 = (11 - (b % 11)) % 11 PROVE a % 11 = b % 11
  <2>1. \A x, y \in 0..10 : (11 - x) % 11 = (11 - y) % 11 => x = y
    OBVIOUS
  <2>2. a % 11 \in 0..10 /\ b % 11 \in 0..10
    OBVIOUS
  <2>3. QED BY <1>1, <2>1, <2>2
<1>2. \A a, b \in 1..10 : (11 - a) % 10 = (11 - b) % 10 => a = b
  OBVIOUS
<1>3. QED BY <1>1, <1>2

(* 11 is a prime, so the check digit tells every other digit, and itself.  *)
LEMMA NhsRejects ==
  ASSUME NEW c, NEW e, NEW k, DifferAt(c, e, k), Mod11NhsGbr(c) = "valid"
  PROVE  Mod11NhsGbr(e) = "invalid"
<1> DEFINE s == DigitsOf(c)
           t == DigitsOf(e)
           w == <<10, 9, 8, 7, 6, 5, 4, 3, 2>>
           p == SubSeq(s, 1, 9)
           q == SubSeq(t, 1, 9)
<1>1. PICK m : DifferAt(s, t, m)
  BY DigitsDiffer
<1> HIDE DEF s, t
<1>2. Len(s) = 10 /\ s[10] = (11 - (Weighted(p, w) % 11)) % 11
  BY DEF Mod11NhsGbr, Verdict, s
<1>3. SUFFICES t[10] # (11 - (Weighted(q, w) % 11)) % 11
  BY DEF Mod11NhsGbr, Verdict, t
<1>4. m \in 1..10 /\ \A j \in 1..10 : j # m => s[j] = t[j]
  BY <1>1, <1>2 DEF DifferAt
<1>5. s[m] # t[m]
  BY <1>1 DEF DifferAt
<1>6. /\ m \in 1..9 => DifferAt(p, q, m)
      /\ m \notin 1..9 => p = q
      /\ Len(p) = 9
  <2>1. 9 \in 1..Len(s)
    BY <1>2
  <2>2. QED BY <1>1, <2>1, BeginningDiffers
<1> HIDE DEF p, q
<1>7. CASE m = 10
  <2>1. p = q
    BY <1>6, <1>7
  <2>2. QED BY <1>2, <1>5, <1>7, <2>1
<1>8. CASE m \in 1..9
  <2>1. DifferAt(p, q, m)
    BY <1>6, <1>8
  <2>2. \A i \in 1..9 : Weight(w, i) \in 2..10
    BY Weights
  <2>3. \A i \in 1..Len(p) : Weight(w, i) \in Nat
    <3>1. \A x \in 2..10 : x \in Nat
      OBVIOUS
    <3>2. QED BY <1>6, <2>2, <3>1
  <2> HIDE DEF w
  <2> DEFINE change == q[m] * Weight(w, m) - p[m] * Weight(w, m)
  <2>4. Weighted(p, w) \in Int /\ Weighted(q, w) = Weighted(p, w) + change
    BY <2>1, <2>3, WeightedDiffers
  <2>5. change % 11 # 0 /\ change \in Int
    <3>1. p[m] \in Digit /\ q[m] \in Digit /\ p[m] # q[m]
      BY <2>1 DEF DifferAt
    <3>2. Weight(w, m) \in 2..10
      BY <1>8, <2>2
    <3>3. change \in Int
      BY <3>1, <3>2 DEF Digit
    <3>4. QED BY <3>1, <3>2, <3>3, DigitDistances
  <2> HIDE DEF change
  <2>6. Weighted(q, w) \in Int /\ Weighted(p, w) % 11 # Weighted(q, w) % 11
    BY <2>4, <2>5, Remainders
  <2>7. s[10] = t[10]
    BY <1>4, <1>8
  <2>8. QED BY <1>2, <2>4, <2>6, <2>7, Complements
<1>9. QED BY <1>4, <1>7, <1>8

(* The products of ISO 7064 tell every digit. *)
LEMMA TaxIdRejects ==
  ASSUME NEW c, NEW e, NEW k, DifferAt(c, e, k), TaxIdDeu(c) = "valid"
  PROVE  TaxIdDeu(e) = "invalid"
<1> DEFINE s == DigitsOf(c)
           t == DigitsOf(e)
<1>1. s \in Seq(Digit) /\ t \in Seq(Digit)
  BY DigitsDiffer
<1>2. PICK m : DifferAt(s, t, m)
  BY DigitsDiffer
<1> HIDE DEF s, t
<1>3. Len(s) = 11 /\ s[11] = (11 - IsoProduct(s)) % 10
  BY DEF TaxIdDeu, Verdict, s
<1>4. SUFFICES t[11] # (11 - IsoProduct(t)) % 10
  BY DEF TaxIdDeu, Verdict, t
<1>5. m \in 1..11 /\ (\A j \in 1..11 : j # m => s[j] = t[j]) /\ s[m] # t[m]
  BY <1>2, <1>3 DEF DifferAt
<1>6. /\ IsoProduct(s) \in 1..10 /\ IsoProduct(t) \in 1..10
      /\ IsoProduct(s) = IsoProduct(t) <=> m > 10
  <2>1. Len(s) >= 10
    BY <1>3
  <2>2. QED BY <1>1, <1>2, <2>1, ProductDiffers
<1>7. CASE m = 11
  BY <1>3, <1>5, <1>6, <1>7
<1>8. CASE m \in 1..10
  <2>1. IsoProduct(s) # IsoProduct(t) /\ s[11] = t[11]
    BY <1>5, <1>6, <1>8
  <2>2. QED BY <1>3, <1>6, <2>1, Complements
<1>9. QED BY <1>5, <1>7, <1>8

(* The remainder of an IBAN, its first four characters moved behind.       *)
LEMMA IbanRejects ==
  ASSUME NEW c, NEW e, NEW k, DifferAt(c, e, k), Iban(c) = "valid"
  PROVE  Iban(e) = "invalid"
<1> DEFINE n == Len(c)
           Back(x) == SubSeq(x, 5, Len(x)) \o SubSeq(x, 1, 4)
<1>1. /\ c \in Seq(Nat) /\ e \in Seq(Nat) /\ Len(e) = n /\ k \in 1..n /\ n \in Nat
  BY LenProperties DEF DifferAt
<1>2. n \in 15..34 /\ Mod97(Back(c)) = 1
  BY DEF Iban, Verdict
<1>3. SUFFICES \E m : DifferAt(Back(c), Back(e), m)
  <2>1. ASSUME NEW m, DifferAt(Back(c), Back(e), m) PROVE Mod97(Back(e)) # 1
    BY <1>2, <2>1, Mod97Differs
  <2> HIDE DEF n
  <2>2. (\E m : DifferAt(Back(c), Back(e), m)) => Mod97(Back(e)) # 1
    BY <2>1
  <2>3. QED BY <2>2 DEF Iban, Verdict
<1>4. 1 \in 1..n /\ 4 \in 1..n /\ 5 \in 1..n /\ n \in 5..n
  <2>1. n \in 15..34
    BY <1>2
  <2> HIDE DEF n
  <2>2. QED BY <2>1
<1> DEFINE p == SubSeq(c, 5, n)
           q == SubSeq(e, 5, n)
           u == SubSeq(c, 1, 4)
           v == SubSeq(e, 1, 4)
<1>5. /\ k \in 1..4 => DifferAt(u, v, k)
      /\ k \notin 1..4 => u = v
  <2> HIDE DEF n
  <2>1. QED BY <1>4, BeginningDiffers DEF n
<1>6. /\ k \in 5..n => DifferAt(p, q, k - 5 + 1)
      /\ k \notin 5..n => p = q
  <2> HIDE DEF n
  <2>1. QED BY <1>4, PartDiffers DEF n
<1>7. u \in Seq(Nat) /\ q \in Seq(Nat)
  <2>1. u \in Seq(Nat)
    BY <1>1, <1>4, PartIs
  <2>2. q \in Seq(Nat)
    BY <1>1, <1>4, PartIs
  <2>3. QED BY <2>1, <2>2
<1>8. Back(c) = p \o u /\ Back(e) = q \o v
  BY <1>1
<1> HIDE DEF n, p, q, u, v, Back
<1>9. CASE k \in 1..4
  <2>1. p = q /\ DifferAt(u, v, k)
    BY <1>5, <1>6, <1>9
  <2>2. DifferAt(q \o u, q \o v, Len(q) + k)
    BY <1>7, <2>1, JoinDiffers
  <2>3. QED BY <1>8, <2>1, <2>2
<1>10. CASE k \in 5..n
  <2>1. u = v /\ DifferAt(p, q, k - 5 + 1)
    BY <1>5, <1>6, <1>10
  <2>2. DifferAt(p \o u, q \o u, k - 5 + 1)
    BY <1>7, <2>1, JoinDiffers
  <2>3. QED BY <1>8, <2>1, <2>2
<1>11. QED BY <1>1, <1>9, <1>10

(* The machine-readable zone: weights without a factor in common with 10.  *)
LEMMA IcaoRejects ==
  ASSUME NEW c, NEW e, NEW k, DifferAt(c, e, k), IcaoMrz9(c) = "valid"
  PROVE  IcaoMrz9(e) = "invalid"
<1> DEFINE w == <<7, 3, 1>>
           p == SubSeq(c, 1, 8)
           q == SubSeq(e, 1, 8)
<1>1. Len(c) = 9 /\ c[9] = Weighted(p, w) % 10
  BY DEF IcaoMrz9, IcaoCheck, Verdict
<1>2. SUFFICES e[9] # Weighted(q, w) % 10
  BY DEF IcaoMrz9, IcaoCheck, Verdict
<1>3. k \in 1..9 /\ (\A j \in 1..9 : j # k => c[j] = e[j]) /\ c[k] # e[k]
  BY <1>1 DEF DifferAt
<1>4. /\ k \in 1..8 => DifferAt(p, q, k)
      /\ k \notin 1..8 => p = q
      /\ Len(p) = 8
  <2>1. 8 \in 1..Len(c)
    BY <1>1
  <2>2. QED BY <2>1, BeginningDiffers
<1> HIDE DEF p, q
<1>5. CASE k = 9
  <2>1. p = q
    BY <1>4, <1>5
  <2>2. QED BY <1>1, <1>3, <1>5, <2>1
<1>6. CASE k \in 1..8
  <2>1. DifferAt(p, q, k) /\ c[9] = e[9]
    BY <1>3, <1>4, <1>6
  <2>2. \A i \in 1..8 : Weight(w, i) \in {1, 3, 7}
    BY Weights
  <2>3. \A i \in 1..Len(p) : Weight(w, i) \in Nat
    <3>1. \A x \in {1, 3, 7} : x \in Nat
      OBVIOUS
    <3>2. QED BY <1>4, <2>2, <3>1
  <2> HIDE DEF w
  <2> DEFINE change == q[k] * Weight(w, k) - p[k] * Weight(w, k)
  <2>4. Weighted(p, w) \in Int /\ Weighted(q, w) = Weighted(p, w) + change
    BY <2>1, <2>3, WeightedDiffers
  <2>5. change % 10 # 0 /\ change \in Int
    <3>1. p[k] \in Digit /\ q[k] \in Digit /\ p[k] # q[k]
      BY <2>1 DEF DifferAt
    <3>2. Weight(w, k) \in {1, 3, 7}
      BY <1>6, <2>2
    <3>3. change \in Int
      BY <3>1, <3>2 DEF Digit
    <3>4. QED BY <3>1, <3>2, <3>3, DigitDistances
  <2> HIDE DEF change
  <2>6. Weighted(p, w) % 10 # Weighted(q, w) % 10
    BY <2>4, <2>5, Remainders
  <2>7. QED BY <1>1, <2>1, <2>6
<1>7. QED BY <1>3, <1>5, <1>6

(* The cross sum of a health insurance number, whose letter is no digit.   *)
LEMMA HealthInsuranceRejects ==
  ASSUME NEW c, NEW e, NEW k, DifferAt(c, e, k), HealthInsuranceDeu(c) = "valid"
  PROVE  HealthInsuranceDeu(e) = "invalid"
<1> DEFINE ordinal == LetterOrdinal(c[1])
           w == <<1, 2>>
           p == SubSeq(c, 2, 9)
           q == SubSeq(e, 2, 9)
           x == <<ordinal \div 10, ordinal % 10>>
<1>1. Len(c) = 10 /\ IsLetter(c[1]) /\ CrossWeighted(x \o p, w) % 10 = c[10]
  BY DEF HealthInsuranceDeu, Verdict
<1>2. /\ c \in Seq(Nat) /\ k \in 1..10 /\ (\A j \in 1..10 : j # k => c[j] = e[j])
      /\ c[k] \in Digit /\ c[k] # e[k]
  BY <1>1 DEF DifferAt
<1>3. c[1] \in Nat
  BY <1>1, <1>2
<1>4. k # 1
  BY <1>1, <1>2 DEF IsLetter, Digit
<1>5. c[1] = e[1]
  BY <1>2, <1>4
<1>6. SUFFICES CrossWeighted(x \o q, w) % 10 # e[10]
  BY <1>5 DEF HealthInsuranceDeu, Verdict
<1>7. x \in Seq(Nat)
  <2>1. ordinal \in Nat
    BY <1>1, <1>3 DEF LetterOrdinal, IsLetter
  <2> HIDE DEF ordinal
  <2>2. ordinal \div 10 \in Nat /\ ordinal % 10 \in Nat
    BY <2>1
  <2>3. QED BY <2>2
<1> HIDE DEF x
<1>8. /\ k \in 2..9 => DifferAt(p, q, k - 2 + 1)
      /\ k \notin 2..9 => p = q
  <2> DEFINE m == 2
             n == 9
  <2>1. m \in 1..Len(c) /\ n \in m..Len(c)
    BY <1>1
  <2> HIDE DEF m, n
  <2>2. /\ k \in m..n => DifferAt(SubSeq(c, m, n), SubSeq(e, m, n), k - m + 1)
        /\ k \notin m..n => SubSeq(c, m, n) = SubSeq(e, m, n)
    BY <2>1, PartDiffers
  <2>3. QED BY <2>2 DEF m, n
<1> HIDE DEF p, q, w
<1>9. CASE k = 10
  <2>1. p = q
    BY <1>8, <1>9
  <2>2. QED BY <1>1, <1>2, <1>9, <2>1
<1>10. CASE k \in 2..9
  <2>1. c[10] = e[10]
    BY <1>2, <1>10
  <2>2. DifferAt(x \o p, x \o q, Len(x) + (k - 2 + 1))
    BY <1>7, <1>8, <1>10, JoinDiffers
  <2>3. CrossWeighted(x \o p, w) % 10 # CrossWeighted(x \o q, w) % 10
    BY <2>2, CrossWeightedDiffers DEF w
  <2>4. QED BY <1>1, <2>1, <2>3
<1>11. QED BY <1>2, <1>4, <1>9, <1>10

(* A misprint of a text differs from it in one digit. *)
LEMMA MisprintsDiffer ==
  ASSUME NEW t \in Text, NEW m \in Misprints(t)
  PROVE  \E k : DifferAt(t.chars, m.chars, k)
<1> DEFINE s == t.chars
<1>1. s \in Seq(Nat) /\ Len(s) \in Nat /\ DOMAIN s = 1..Len(s)
  <2>1. s \in Seq(Alnum)
    BY DEF Text
  <2>2. Alnum \subseteq Nat
    BY DEF Alnum, Digit, Letter
  <2> HIDE DEF s
  <2>3. Len(s) \in Nat /\ DOMAIN s = 1..Len(s) /\ s \in [1..Len(s) -> Alnum]
    BY <2>1, LenProperties
  <2>4. s \in [1..Len(s) -> Nat]
    BY <2>2, <2>3
  <2>5. QED BY <2>3, <2>4
<1>2. PICK i \in DOMAIN s, d \in Digit :
        IsDigit(s[i]) /\ m = [t EXCEPT !.chars[i] = d] /\ m # t
  BY DEF Misprints
<1>3. m = [t EXCEPT !.chars = [s EXCEPT ![i] = d]]
  BY <1>2
<1>4. m.chars = [s EXCEPT ![i] = d]
  BY <1>3 DEF Text
<1>5. d # s[i]
  <2> SUFFICES ASSUME d = s[i] PROVE m = t
    BY <1>2
  <2>1. [s EXCEPT ![i] = d] = s
    <3> HIDE DEF s
    <3>1. QED BY <1>1
  <2>2. QED BY <1>3, <2>1 DEF Text
<1> DEFINE e == m.chars
<1> HIDE DEF s, e
<1>6. e = [s EXCEPT ![i] = d]
  BY <1>4 DEF e
<1>7. s[i] \in Digit /\ d \in Nat
  BY <1>1, <1>2, ElementOfSeq, DigitsAre
<1>8. e \in Seq(Nat) /\ Len(e) = Len(s)
  BY <1>1, <1>6, <1>7
<1>9. DifferAt(s, e, i)
  BY <1>1, <1>2, <1>5, <1>6, <1>7, <1>8 DEF DifferAt
<1>10. QED BY <1>9 DEF s, e

(* Every scheme with a check digit rejects a misprint of what it accepts.  *)
LEMMA SchemesReject ==
  ASSUME NEW v \in CheckDigits, NEW t, NEW m, NEW k, DifferAt(t.chars, m.chars, k), Validate(v, t) = "valid"
  PROVE  Validate(v, m) = "invalid"
<1>1. CASE v = "AbaRoutingUsa"
  BY <1>1, AbaRejects DEF Validate
<1>2. CASE v = "HealthInsuranceDeu"
  BY <1>2, HealthInsuranceRejects DEF Validate
<1>3. CASE v = "Iban"
  BY <1>3, IbanRejects DEF Validate
<1>4. CASE v = "IcaoMrz9"
  BY <1>4, IcaoRejects DEF Validate
<1>5. CASE v = "Luhn"
  BY <1>5, LuhnRejects DEF Validate
<1>6. CASE v = "LuhnSinCan"
  BY <1>6, LuhnRejects DEF Validate
<1>7. CASE v = "Mod11NhsGbr"
  BY <1>7, NhsRejects DEF Validate
<1>8. CASE v = "NpiUsa"
  BY <1>8, LuhnRejects DEF Validate
<1>9. CASE v = "TaxIdDeu"
  BY <1>9, TaxIdRejects DEF Validate
<1>10. QED BY <1>1, <1>2, <1>3, <1>4, <1>5, <1>6, <1>7, <1>8, <1>9 DEF CheckDigits

-----------------------------------------------------------------------------
(* The theorems. *)

(* The invariant holds in every behaviour. *)
LEMMA Invariance == Spec => []IInv
<1>1. Init => IInv
  BY InitIInv
<1>2. IInv /\ [Next]_vars => IInv'
  BY NextKeeps
<1>3. QED BY <1>1, <1>2, PTL DEF Spec

(* Every variable has its type, for every payload; in particular the path  *)
(* is never shortened below empty.                                         *)
THEOREM TypeCorrect == Spec => []TypeOK
<1>1. IInv => TypeOK
  BY DEF IInv
<1>2. QED BY <1>1, Invariance, PTL

(* The context of a value is the key path to it, however the walk came     *)
(* there: no word of a sibling's key is left on the path.                  *)
THEOREM ContextsAreKeyPaths == Spec => []ContextIsKeyPath
<1>1. IInv => ContextIsKeyPath
  <2> SUFFICES ASSUME IInv, stage = "walk", stack # <<>>, Top.type # "pop"
               PROVE  path \o KeyWords(Top) = KeyPath(payload, Top.node)
    BY DEF ContextIsKeyPath, KeyWords
  <2>1. PICK c : Contexts(c)
    BY DEF IInv, ContextsInv
  <2>2. Len(stack) \in 1..Len(stack) /\ Top = stack[Len(stack)]
    BY TopFrame DEF IInv
  <2>3. QED BY <2>1, <2>2 DEF Contexts, IsNode
<1>2. QED BY <1>1, Invariance, PTL

(* Rows are returned only when every leaf was judged once, in its own      *)
(* context, and the counters are those of the rows returned.               *)
THEOREM EveryLeafIsJudged == Spec => []EveryLeafJudged
<1>1. IInv => EveryLeafJudged
  <2> SUFFICES ASSUME IInv, response = "rows"
               PROVE  /\ \A x \in Leaves(payload) :
                           value[x] = IF RegexHits(text[x], KeyPath(payload, x)) \/ x \in found
                                      THEN Rewritten ELSE text[x]
                      /\ scanned = Cardinality(Leaves(payload))
                      /\ total = Cardinality({x \in Leaves(payload) : value[x] = Rewritten})
    BY DEF EveryLeafJudged
  <2>1. QED BY DEF IInv, AnswerInv, CountInv
<1>2. QED BY <1>1, Invariance, PTL

(* In the rows returned no leaf still shows a text that an enabled         *)
(* recognizer accepts next to one of its keywords.                         *)
THEOREM KeywordsAreEnough == Spec => []KeywordsSuffice
<1>1. IInv => KeywordsSuffice
  <2> SUFFICES ASSUME IInv, response = "rows", NEW x \in Leaves(payload), NEW r \in FromConfig(categories),
                      r.keywords, Named(r.entity, text[x], KeyPath(payload, x)), Accepts(r, text[x])
               PROVE  value[x] = Rewritten
    BY DEF KeywordsSuffice
  <2>1. Scored(r)
    <3>1. r \in all
      BY DEF FromConfig
    <3>2. QED BY <3>1, AllScored
  <2>2. RegexHits(text[x], KeyPath(payload, x))
    BY <2>1, KeywordSuffices DEF RegexHits
  <2>3. QED BY <2>2 DEF IInv, AnswerInv
<1>2. QED BY <1>1, Invariance, PTL

(* No validator with a check digit accepts a number with one digit wrong,  *)
(* however long the number and whatever letters and separators are in it.  *)
THEOREM MisprintsAreRejected == Spec => []MisprintsRejected
<1>1. IInv => MisprintsRejected
  <2> SUFFICES ASSUME IInv, NEW x \in Leaves(payload),
                      NEW v \in CheckDigits, Validate(v, text[x]) = "valid", NEW m \in Misprints(text[x])
               PROVE  Validate(v, m) = "invalid"
    BY DEF MisprintsRejected
  <2>1. text[x] \in Contents(payload)
    BY DEF IInv, TypeOK
  <2>2. CASE text[x] \in Text
    <3>1. PICK k : DifferAt(text[x].chars, m.chars, k)
      BY <2>2, MisprintsDiffer
    <3>2. QED BY <3>1, SchemesReject
  <2>3. CASE text[x] \in {Empty, Rewritten}
    <3>1. text[x].chars = <<>>
      BY <2>3 DEF Empty, Rewritten, Written
    <3>2. QED BY <3>1 DEF Misprints
  <2>4. payload.holds \in DOMAIN Texts
    BY PayloadType DEF IInv, TypeOK
  <2>5. QED BY <2>1, <2>2, <2>3, <2>4, TextsAssumption DEF Contents
<1>2. QED BY <1>1, Invariance, PTL
=============================================================================
