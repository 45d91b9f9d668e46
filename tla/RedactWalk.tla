------------------------------ MODULE RedactWalk ------------------------------
(***************************************************************************)
(* Redactor::apply (crates/pii/src/redact.rs): the iterative walk over the *)
(* JSON rows with its shared key path, the leaves whose text is moved out  *)
(* for the model, the batched inference (ner.rs), and the merge that puts  *)
(* every text back.                                                        *)
(*                                                                         *)
(* Whether the patterns find something in a text is Recognizers', and what *)
(* then happens inside the text PiiLeaf's; here it is rewritten or not.    *)
(***************************************************************************)
EXTENDS Recognizers

CONSTANTS Size,     \* bound: values of a payload
          Payloads, \* the payloads to walk
          Texts,    \* what the leaves of a payload hold: sets of texts, by name
          Words,    \* the lowercase words of a key, a sequence
          Selections, \* what pii.categories may select; {} when it is unset
          Batch     \* windows in one forward pass

Nodes == 1..Size   \* the values of a payload
ASSUME SizeAssumption == Size \in Nat

Word == UNION {{Words[k][i] : i \in DOMAIN Words[k]} : k \in DOMAIN Words}
ASSUME WordsAssumption == \A k \in DOMAIN Words : Words[k] \in Seq(Word)

(* A payload: the rows, and for every value its kind, its children in      *)
(* order, the key it stands under in an object, and which texts the leaves *)
(* hold.                                                                   *)
ASSUME PayloadAssumption ==
  \A p \in Payloads :
    /\ p.rows \in Seq(Nodes)
    /\ p.kind \in [Nodes -> {"string", "object", "array", "scalar"}]
    /\ p.kids \in [Nodes -> Seq(Nodes)]
    /\ p.key \in [Nodes -> DOMAIN Words]
    /\ p.holds \in DOMAIN Texts

ChildrenOf(p, x) == {p.kids[x][k] : k \in DOMAIN p.kids[x]}
IsRow(p, x) == \E k \in DOMAIN p.rows : p.rows[k] = x
IsChild(p, x) == \E z \in Nodes : x \in ChildrenOf(p, z)

(* A JSON value is a tree: a value stands in one place, and, numbered as   *)
(* they are read, after the value it stands in. A number without a place   *)
(* counts as a scalar.                                                     *)
ASSUME TreeAssumption ==
  \A p \in Payloads :
    /\ \A i, j \in DOMAIN p.rows : p.rows[i] = p.rows[j] => i = j
    /\ \A x, y \in Nodes : \A i \in DOMAIN p.kids[x], j \in DOMAIN p.kids[y] :
         p.kids[x][i] = p.kids[y][j] => x = y /\ i = j
    /\ \A x \in Nodes : \A y \in ChildrenOf(p, x) : x < y /\ ~IsRow(p, y)
    /\ \A x \in Nodes : p.kind[x] \in {"string", "scalar"} => p.kids[x] = <<>>
    /\ \A x \in Nodes : p.kind[x] # "scalar" => IsRow(p, x) \/ IsChild(p, x)

ASSUME SelectionAssumption == \A c \in Selections : c \subseteq Categories
Leaves(p) == {x \in Nodes : p.kind[x] = "string"}
ASSUME BatchAssumption == Batch \in Nat \ {0}

(* Beside the texts of Recognizers, a leaf can hold nothing, as it does    *)
(* while its text is moved out, a rewritten text, and a name, which only   *)
(* the model finds.                                                        *)
Empty == Written("empty", <<>>, TRUE)
Rewritten == Written("rewritten", <<>>, TRUE)
Name == Written("name", <<>>, TRUE)
Contents(p) == Texts[p.holds] \cup {Empty, Rewritten}
Text == [format : STRING, chars : Seq(Alnum), sound : BOOLEAN, near : SUBSET STRING]
ASSUME TextsAssumption == \A h \in DOMAIN Texts : Texts[h] \subseteq Text \ {Rewritten}

VARIABLES
  payload,  \* the shape of the rows; never changed
  text,     \* what their leaves came with; never changed
  categories, \* those selected; never changed
  ner,      \* whether an engine is attached
  value,    \* the text of each leaf as it is now
  stage,
  stack,    \* frames, the top last
  path,     \* key words of the objects around the current value
  slots,    \* leaves deferred to the model, with their text and regex hits
  at,       \* slots tokenized, or restored, so far
  windows,  \* windows still to run: the slot each came from
  results,  \* whether the model found anything, per slot
  scanned,  \* stats.string_leaves_scanned
  total,    \* rewritten leaves
  response, \* what the caller of redact_rows gets
  found     \* history: leaves in which the model found a name

walkVars == <<stack, path>>
nerVars == <<slots, at, windows, results, found>>
vars == <<payload, text, categories, ner, value, stage, walkVars, nerVars, scanned, total, response>>

Root(x) == [type |-> "root", node |-> x]
KeyedChild(x) == [type |-> "keyed", node |-> x]
Pop(n) == [type |-> "pop", n |-> n]

Reversed(s) == [k \in 1..Len(s) |-> s[Len(s) + 1 - k]]
Image(Op(_), s) == [k \in DOMAIN s |-> Op(s[k])]

Init ==
  /\ payload \in Payloads /\ ner \in BOOLEAN /\ categories \in Selections
  /\ text \in [Leaves(payload) -> Texts[payload.holds]]
  /\ value = text /\ stage = "walk"
  /\ stack = Image(Root, Reversed(payload.rows)) /\ path = <<>>
  /\ slots = <<>> /\ at = 0 /\ windows = <<>> /\ results = <<>> /\ found = {}
  /\ scanned = 0 /\ total = 0 /\ response = "none"

-----------------------------------------------------------------------------
(* The walk. *)

Top == stack[Len(stack)]
Rest == SubSeq(stack, 1, Len(stack) - 1)

(* Whether the patterns find something in a text, in the context of a path. *)
RegexHits(t, context) == Analyze(t, context, FromConfig(categories)) # {}

PopFrame ==
  /\ stage = "walk" /\ stack # <<>> /\ Top.type = "pop"
  /\ stack' = Rest
  /\ path' = SubSeq(path, 1, Len(path) - Top.n)
  /\ UNCHANGED <<payload, text, categories, ner, value, stage, nerVars, scanned, total, response>>

(* Mutant: the frame that restores the path is pushed last. *)
FramesRestoredEarly(restore, children) == children \o restore
(* The frames that replace a value on the stack: the one that restores the *)
(* path lies under those of the children.                                  *)
Frames(restore, children) == restore \o children

(* The frames of a value's children: an array index is no key. *)
Children(x) ==
  CASE payload.kind[x] = "object" -> Image(KeyedChild, payload.kids[x])
    [] payload.kind[x] = "array"  -> Image(Root, payload.kids[x])
    [] OTHER -> <<>>

(* Without an engine a leaf is rewritten on the spot, with one its text is *)
(* moved out and put on the list for the batch.                            *)
VisitLeaf(x, context) ==
  /\ scanned' = scanned + 1
  /\ IF ner
     THEN /\ slots' = Append(slots, [node |-> x, text |-> value[x], regex |-> RegexHits(value[x], context)])
          /\ value' = [value EXCEPT ![x] = Empty]
          /\ UNCHANGED total
     ELSE IF RegexHits(value[x], context)
     THEN /\ value' = [value EXCEPT ![x] = Rewritten]
          /\ total' = total + 1
          /\ UNCHANGED slots
     ELSE UNCHANGED <<value, total, slots>>

Visit ==
  /\ stage = "walk" /\ stack # <<>> /\ Top.type # "pop"
  /\ LET x == Top.node
         words == IF Top.type = "keyed" THEN Words[payload.key[x]] ELSE <<>>
         restore == IF Top.type = "keyed" THEN <<Pop(Len(words))>> ELSE <<>>
     IN /\ path' = path \o words
        /\ stack' = Rest \o Frames(restore, Children(x))
        /\ IF payload.kind[x] = "string" THEN VisitLeaf(x, path')
           ELSE UNCHANGED <<value, slots, scanned, total>>
  /\ UNCHANGED <<payload, text, categories, ner, stage, at, windows, results, response, found>>

(* A recognizer panics: catch_unwind answers with an error, or, where      *)
(* panics abort, the process ends; no rows either way.                     *)
Panic ==
  /\ stage = "walk" /\ stack # <<>> /\ Top.type # "pop" /\ payload.kind[Top.node] = "string"
  /\ stage' = "done" /\ response' = "error"
  /\ UNCHANGED <<payload, text, categories, ner, value, walkVars, nerVars, scanned, total>>

(* Without deferred leaves the rows are returned as they are now. *)
WalkDone ==
  /\ stage = "walk" /\ stack = <<>>
  /\ IF slots = <<>>
     THEN stage' = "done" /\ response' = "rows" /\ UNCHANGED results
     ELSE stage' = "tokenize" /\ results' = [k \in DOMAIN slots |-> FALSE] /\ UNCHANGED response
  /\ UNCHANGED <<payload, text, categories, ner, value, walkVars, slots, at, windows, found, scanned, total>>

-----------------------------------------------------------------------------
(* The batch. *)

(* Mutant: the error is only logged. *)
InferErrorIgnored ==
  /\ stage' = "done" /\ response' = "rows"
  /\ UNCHANGED <<payload, text, categories, ner, value, walkVars, nerVars, scanned, total>>
(* Tokenizer, session lock or forward pass failed: the call is answered    *)
(* with an error, and the emptied leaves are dropped with the rows.        *)
InferError ==
  /\ stage' = "done" /\ response' = "error"
  /\ UNCHANGED <<payload, text, categories, ner, value, walkVars, nerVars, scanned, total>>

(* A text is split into one window or, when long, into two; an empty one   *)
(* has none.                                                               *)
Tokenize ==
  /\ stage = "tokenize" /\ at < Len(slots)
  /\ at' = at + 1
  /\ \E n \in IF slots[at'].text = Empty THEN {0} ELSE {1, 2} :
       windows' = windows \o [k \in 1..n |-> at']
  /\ UNCHANGED <<payload, text, categories, ner, value, stage, walkVars, slots, results, found, scanned, total, response>>

TokenizeFails == stage = "tokenize" /\ at < Len(slots) /\ slots[at + 1].text # Empty /\ InferError

Tokenized ==
  /\ stage = "tokenize" /\ at = Len(slots)
  /\ stage' = "infer" /\ at' = 0
  /\ UNCHANGED <<payload, text, categories, ner, value, walkVars, slots, windows, results, found, scanned, total, response>>

(* Where the spans of the chunk's k-th window go: to the text it came from. *)
Source(k) == windows[k]

(* One forward pass.  A name can be found in any window of its text.  A    *)
(* graph without an output, or with too few logits, is no error: the       *)
(* windows it has none for are passed over.                                *)
RunChunk ==
  /\ stage = "infer" /\ windows # <<>>
  /\ LET size == IF Len(windows) < Batch THEN Len(windows) ELSE Batch
         node(k) == slots[windows[k]].node
     IN \E read \in 0..size :
        \E hit \in SUBSET {k \in 1..read : slots[windows[k]].text = Name} :
          /\ results' = [j \in DOMAIN results |-> results[j] \/ \E k \in hit : Source(k) = j]
          /\ found' = found \cup {node(k) : k \in hit}
          /\ windows' = SubSeq(windows, size + 1, Len(windows))
  /\ UNCHANGED <<payload, text, categories, ner, value, stage, walkVars, slots, at, scanned, total, response>>

ChunkFails == stage = "infer" /\ windows # <<>> /\ InferError

Inferred ==
  /\ stage = "infer" /\ windows = <<>>
  /\ stage' = "merge"
  /\ UNCHANGED <<payload, text, categories, ner, value, walkVars, nerVars, scanned, total, response>>

(* The text goes back to its leaf and is rewritten if anything was found. *)
Restore ==
  /\ stage = "merge" /\ at < Len(slots)
  /\ at' = at + 1
  /\ LET leaf == slots[at']
         hits == leaf.regex \/ results[at']
     IN /\ value' = [value EXCEPT ![leaf.node] = IF hits THEN Rewritten ELSE leaf.text]
        /\ total' = IF hits THEN total + 1 ELSE total
  /\ UNCHANGED <<payload, text, categories, ner, stage, walkVars, slots, windows, results, found, scanned, response>>

Merged ==
  /\ stage = "merge" /\ at = Len(slots)
  /\ stage' = "done" /\ response' = "rows"
  /\ UNCHANGED <<payload, text, categories, ner, value, walkVars, nerVars, scanned, total>>

Returned == stage = "done" /\ UNCHANGED vars

Walk == PopFrame \/ Visit \/ Panic \/ WalkDone
Infer == Tokenize \/ TokenizeFails \/ Tokenized \/ RunChunk \/ ChunkFails \/ Inferred
Next == Walk \/ Infer \/ Restore \/ Merged \/ Returned

Spec == Init /\ [][Next]_vars

-----------------------------------------------------------------------------
(* Properties. *)

Frame == [type : {"root", "keyed"}, node : Nodes] \cup [type : {"pop"}, n : Nat]
Slot == [node : Nodes, text : Contents(payload), regex : BOOLEAN]

(* Every variable has its type; in particular, the path is never popped    *)
(* below empty and every window belongs to a deferred leaf.                *)
TypeOK ==
  /\ payload \in Payloads /\ ner \in BOOLEAN /\ categories \in Selections
  /\ text \in [Leaves(payload) -> Contents(payload)] /\ value \in [Leaves(payload) -> Contents(payload)]
  /\ stage \in {"walk", "tokenize", "infer", "merge", "done"}
  /\ stack \in Seq(Frame) /\ path \in Seq(Word)
  /\ stack # <<>> /\ Top.type = "pop" => Top.n <= Len(path)
  /\ slots \in Seq(Slot) /\ at \in 0..Len(slots) /\ windows \in Seq(DOMAIN slots)
  /\ results \in Seq(BOOLEAN) /\ found \subseteq Leaves(payload)
  /\ scanned \in Nat /\ total \in Nat /\ response \in {"none", "rows", "error"}

ParentOf(p, x) == CHOOSE z \in Nodes : x \in ChildrenOf(p, z)

(* The words of the keys of all objects around a value, outermost first. *)
KeyPaths(p) ==
  LET along[y \in Nodes] ==
        IF ~IsChild(p, y) THEN <<>>
        ELSE along[ParentOf(p, y)]
             \o (IF p.kind[ParentOf(p, y)] = "object" THEN Words[p.key[y]] ELSE <<>>)
  IN along
KeyPath(p, x) == KeyPaths(p)[x]

(* The context of a value is the key path to it: the words of a sibling's  *)
(* key never reach it, those of no enclosing object are missing.           *)
ContextIsKeyPath ==
  stage = "walk" /\ stack # <<>> /\ Top.type # "pop" =>
    path \o (IF Top.type = "keyed" THEN Words[payload.key[Top.node]] ELSE <<>>) = KeyPath(payload, Top.node)

(* Rows are returned only when every leaf was judged: rewritten if the     *)
(* patterns, in the leaf's own context, or the model found something in    *)
(* it, and otherwise as it came, never empty.  The counters reported are   *)
(* those of the rows returned.                                             *)
EveryLeafJudged ==
  response = "rows" =>
    /\ \A x \in Leaves(payload) :
         value[x] = IF RegexHits(text[x], KeyPath(payload, x)) \/ x \in found
                    THEN Rewritten ELSE text[x]
    /\ scanned = Cardinality(Leaves(payload))
    /\ total = Cardinality({x \in Leaves(payload) : value[x] = Rewritten})

(* In the rows returned, no leaf still shows a text that an enabled        *)
(* recognizer's pattern matches and its validator accepts, when a key on   *)
(* the way to it, or a word before it, is a keyword of the recognizer:     *)
(* however weak the pattern, the boost takes it over the redactor's floor. *)
KeywordsSuffice ==
  response = "rows" =>
    \A x \in Leaves(payload), r \in FromConfig(categories) :
      (/\ r.keywords /\ Named(r.entity, text[x], KeyPath(payload, x))
       /\ Accepts(r, text[x])) => value[x] = Rewritten

(* The recognizers the comments and docs call weak and keyword-gated: a    *)
(* match with a keyword nearby is lifted over the floor.                   *)
KeywordGated == {cvv, api_key_aws_secret, bank_account_usa}
WeakPatternsSurface ==
  response = "rows" =>
    \A x \in Leaves(payload), r \in KeywordGated \cap FromConfig(categories) :
      (Named(r.entity, text[x], KeyPath(payload, x)) /\ Accepts(r, text[x])) => value[x] = Rewritten

(* A validator tells a number from its misprints: of a number it finds     *)
(* valid, none with one other digit is.                                    *)
CheckDigits ==
  {"AbaRoutingUsa", "HealthInsuranceDeu", "Iban", "IcaoMrz9", "Luhn", "LuhnSinCan", "Mod11NhsGbr", "NpiUsa", "TaxIdDeu"}
Misprints(t) ==
  {[t EXCEPT !.chars[i] = d] : i \in {i \in DOMAIN t.chars : IsDigit(t.chars[i])}, d \in Digit} \ {t}
MisprintsRejected ==
  stage = "done" =>
    \A x \in Leaves(payload), r \in {r \in FromConfig(categories) : r.validator \in CheckDigits} :
      (Accepts(r, text[x]) /\ Validate(r.validator, text[x]) = "valid")
        => \A m \in Misprints(text[x]) : Validate(r.validator, m) = "invalid"
=============================================================================
