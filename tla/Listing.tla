------------------------------- MODULE Listing -------------------------------
(***************************************************************************)
(* Paging (crates/server/src/listing.rs) as a client uses it: it follows   *)
(* the cursors of a list tool from some offset to the end while other      *)
(* clients create and drop what is listed. What a tool selects is in       *)
(* Catalogue, which tools there are in Tools.                              *)
(***************************************************************************)
EXTENDS Catalogue, Tools, FiniteSets, Sequences

CONSTANTS Requests,   \* the client's requests, without their cursors
          World,      \* for each backend, the objects there may be
          Changing,   \* for each tool, the ids of those that come and go
          Starts,     \* the offsets a client may have kept
          I64Max, U64Max,
          MaxChanges  \* bound on the other clients' changes

None == -1   \* no cursor

(* What each list tool is for. *)
KindsOf ==
  [listDatabases |-> {"database"}, listTables |-> TableKinds, listViews |-> {"view"},
   listMaterializedViews |-> {"matview"}, listTriggers |-> {"trigger"},
   listFunctions |-> {"function"}, listProcedures |-> {"procedure"}]

(* A request is one that its backend registers a tool for, in the tool's   *)
(* parameters. A SQLite server always has its file.                        *)
Accepted(r) ==
  /\ r.backend = "sqlite" => r.pinned # Absent
  /\ \E t \in Router(r.backend, FALSE, r.pinned # Absent) :
       /\ t.name = r.tool
       /\ r.database # Absent => "database" \in t.params
       /\ r.search # Absent => "search" \in t.params
       /\ r.detailed => "detailed" \in t.params
ASSUME RequestsAssumption ==
  \A r \in Requests :
    /\ r.backend \in DOMAIN World /\ r.tool \in DOMAIN KindsOf /\ r.size \in Nat \ {0}
    /\ Accepted(r)
    /\ r.backend = "sqlite" => \A o \in World[r.backend] : o.db = r.pinned
ASSUME WorldAssumption ==
  \A b \in DOMAIN World : \A o, p \in World[b] :
    o.id \in 1..(I64Max - 1) /\ o.name \in Nat /\ (o.id = p.id => o = p)

(* What there is on each server: MySQL has no schemas, SQLite has one, and *)
(* each hides some objects of its own.                                     *)
Schemas == [mysql |-> {"public"}, postgres |-> {"public", "private"}, sqlite |-> {"main"}]
Foreign == [mysql |-> {"virtual"}, postgres |-> {"virtual"}, sqlite |-> {"partitioned"}]
HiddenBy(b, kind) ==
  CASE b = "postgres" /\ kind = "database" -> {"template"}
    [] b = "postgres" /\ kind = "trigger" -> {"internal"}
    [] b = "postgres" /\ kind = "column" -> {"dropped"}
    [] b = "sqlite" /\ kind = "trigger" -> {"no sql"}
    [] b = "sqlite" /\ kind \in TableKinds -> {"reserved"}
    [] OTHER -> {}
ASSUME ServersAssumption ==
  /\ DOMAIN World \subseteq DOMAIN Schemas
  /\ \A b \in DOMAIN World : \A o \in World[b] :
       /\ o.kind \notin Foreign[b] /\ o.flags \subseteq HiddenBy(b, o.kind)
       /\ o.kind # "database" => o.schema \in Schemas[b]

(* Tables and views share their names. A part is on one of them.           *)
Relations == TableKinds \cup {"view", "matview"}
PartKinds == Keys \cup {"column", "check", "index", "trigger"}
ASSUME PartsAssumption ==
  \A b \in DOMAIN World : \A o \in World[b] :
    /\ o.on # 0 <=> o.kind \in PartKinds
    /\ o.on # 0 => \E t \in World[b] : t.id = o.on /\ t.kind \in Relations /\ t.db = o.db /\ t.schema = o.schema
    /\ o.kind \in {"check", "trigger"} => o.cols = {}

(* Where the code takes names to be unique they are: in PostgreSQL tables  *)
(* may share the names of their triggers, and overloads share one. Tables  *)
(* may share the names of their constraints, also where they should not.   *)
ASSUME NamesAssumption ==
  \A b \in DOMAIN World : \A o, p \in World[b] :
    o.name = p.name /\ (o.kind = p.kind \/ {o.kind, p.kind} \subseteq Relations) /\ o # p =>
      \/ o.kind # "database" /\ (o.db # p.db \/ o.schema # p.schema)
      \/ o.kind \in PartKinds \ {"trigger"} /\ o.on # p.on
      \/ b = "postgres" /\ (o.kind \in {"function", "procedure"} \/ (o.kind = "trigger" /\ o.on # p.on))
ASSUME WidthAssumption ==
  I64Max \in Nat \ {0} /\ U64Max \in Nat /\ I64Max < U64Max /\ Starts \subseteq 0..U64Max /\ MaxChanges \in Nat

VARIABLES
  catalogue, \* the objects that exist
  request,
  cursor,    \* the cursor of the next call, None for the first page
  pc,        \* "idle", "paging", "end"
  first,     \* history: the offset the client started at
  fetched,   \* history: the objects of all pages so far
  shown,     \* history: the entries of the detailed pages so far
  added, removed,  \* history: objects created and dropped since the start
  changes
vars == <<catalogue, request, cursor, pc, first, fetched, shown, added, removed, changes>>

Objects == World[request.backend]
Roots == {o \in Objects : o.id \in Changing[request.tool]}

Init ==
  /\ request \in Requests
  /\ \E gone \in SUBSET Roots :
       catalogue = {o \in Objects \ gone : \A t \in gone : o.on # t.id}
  /\ cursor = None
  /\ pc = "idle"
  /\ first = 0
  /\ fetched = <<>>
  /\ shown = <<>>
  /\ added = {} /\ removed = {}
  /\ changes = 0

-----------------------------------------------------------------------------
(* ORDER BY; rows that it does not tell apart come in either order.        *)
Before(up, a, b) ==
  \/ a.by[1] < b.by[1]
  \/ a.by[1] = b.by[1] /\ a.by[2] < b.by[2]
  \/ a.by = b.by /\ IF up THEN a.of.id < b.of.id ELSE b.of.id < a.of.id
Ordered(rows, up) ==
  [k \in 1..Cardinality(rows) |->
     CHOOSE a \in rows : Cardinality({b \in rows : Before(up, b, a)}) = k - 1]
Window(rows, limit, offset) ==
  SubSeq(rows, offset + 1, IF offset + limit < Len(rows) THEN offset + limit ELSE Len(rows))

(* As if a cursor skipped the lookahead row. *)
NextCursorPastLookahead(c, size, rows) ==
  IF Len(rows) > size THEN IF c = None THEN size + 1 ELSE c + size + 1 ELSE None

(* Page::offset, Page::limit and Page::split. *)
Offset(c) == LET offset == IF c = None THEN 0 ELSE c IN IF offset > I64Max THEN I64Max ELSE offset
Limit(size) == size + 1
SaturatingAdd(a, b) == IF a + b > U64Max THEN U64Max ELSE a + b
(* As if every page promised another one. *)
NextCursorAlways(c, size, rows) == SaturatingAdd(IF c = None THEN 0 ELSE c, size)
NextCursor(c, size, rows) ==
  IF Len(rows) > size THEN SaturatingAdd(IF c = None THEN 0 ELSE c, size) ELSE None
PageRows(size, rows) == IF Len(rows) > size THEN SubSeq(rows, 1, size) ELSE rows

(* A detailed page is a map by name: a later row takes an earlier one's    *)
(* place.                                                                  *)
Keyed(page) ==
  LET firsts == {i \in DOMAIN page : \A j \in 1..(i - 1) : page[j].name # page[i].name}
      order == [k \in 1..Cardinality(firsts) |->
                  CHOOSE i \in firsts : Cardinality({j \in firsts : j < i}) = k - 1]
      latest(i) == page[CHOOSE l \in DOMAIN page : /\ page[l].name = page[i].name
                                                   /\ \A j \in DOMAIN page : j > l => page[j].name # page[i].name]
  IN [k \in DOMAIN order |-> [name |-> latest(order[k]).name, parts |-> latest(order[k]).parts]]

(* The client begins: at the first page, or from a cursor it kept.         *)
Begin(c) ==
  /\ pc = "idle"
  /\ pc' = "paging"
  /\ cursor' = c
  /\ first' = IF c = None THEN 0 ELSE c
  /\ UNCHANGED <<catalogue, request, fetched, shown, added, removed, changes>>

(* One call: list_entries, paginate and the answer the client reads.       *)
ListEntries ==
  /\ pc = "paging"
  /\ \E up \in BOOLEAN : \E selected \in {Selected(catalogue, request)} :
     \E rows \in {Window(Ordered(selected, up), Limit(request.size), Offset(cursor))} :
       LET page == PageRows(request.size, rows)
           next == NextCursor(cursor, request.size, rows)
       IN /\ fetched' = fetched \o [i \in DOMAIN page |-> page[i].of]
          /\ shown' = IF request.detailed THEN shown \o Keyed(page) ELSE shown
          /\ cursor' = next
          /\ pc' = IF next = None THEN "end" ELSE "paging"
  /\ UNCHANGED <<catalogue, request, first, added, removed, changes>>

(* Another client creates an object, with what is declared in it, or drops *)
(* one, with what is on it.                                                *)
Create(o) ==
  /\ pc = "paging" /\ changes < MaxChanges /\ o \notin catalogue
  /\ o.on = 0 \/ \E t \in catalogue : t.id = o.on
  /\ catalogue' = catalogue \cup {o} \cup {p \in Objects : p.on = o.id /\ p.kind # "trigger"}
  /\ added' = added \cup (catalogue' \ catalogue)
  /\ changes' = changes + 1
  /\ UNCHANGED <<request, cursor, pc, first, fetched, shown, removed>>

Drop(o) ==
  /\ pc = "paging" /\ changes < MaxChanges /\ o \in catalogue
  /\ catalogue' = {p \in catalogue : o.id \notin {p.id, p.on}}
  /\ removed' = removed \cup (catalogue \ catalogue')
  /\ changes' = changes + 1
  /\ UNCHANGED <<request, cursor, pc, first, fetched, shown, added>>

Next ==
  \/ \E c \in {None} \cup Starts : Begin(c)
  \/ ListEntries
  \/ \E o \in Roots : Create(o) \/ Drop(o)

(* The client asks for every page. *)
Spec == Init /\ [][Next]_vars /\ WF_vars(ListEntries)

-----------------------------------------------------------------------------
(* Every variable keeps its type. *)
TypeOK ==
  /\ request \in Requests
  /\ catalogue \subseteq Objects
  /\ cursor \in {None} \cup 0..U64Max
  /\ pc \in {"idle", "paging", "end"}
  /\ first \in 0..U64Max
  /\ fetched \in Seq(Objects)
  /\ added \subseteq Objects /\ removed \subseteq Objects
  /\ changes \in 0..MaxChanges

(* What the tools say they list: the objects of a kind in the database     *)
(* that the request names, or in the active one, that a user has made and  *)
(* the pattern matches; and with a table all its parts.                    *)
Promised(o) ==
  /\ o.kind \in KindsOf[request.tool]
  /\ o.kind # "database" => o.db = Database(request) /\ o.schema # "private"
  /\ o.flags \subseteq IF request.detailed THEN {} ELSE {"no sql"}
  /\ Like(o, request)
PromisedParts(t) ==
  {Own(p) : p \in {q \in catalogue : q.on = t.id /\ q.flags \subseteq {"no sql"}
                                      /\ (request.backend = "sqlite" => q.kind # "check")}}

(* Constraints of one name in one database that MySQL's joins confuse: on  *)
(* one table; or with a CHECK, which MariaDB names table by table; or two  *)
(* foreign keys.                                                           *)
Constraints == Keys \cup {"check"}
Confused(p, q) ==
  /\ p # q /\ p.name = q.name /\ p.db = q.db /\ p.kind \in Constraints /\ q.kind \in Constraints
  /\ p.on = q.on \/ "check" \in {p.kind, q.kind} \/ {p.kind, q.kind} = {"foreign"}
Mistakable(t) ==
  {p.name : p \in {q \in catalogue : request.backend = "mysql" /\ q.on = t.id /\ \E c \in catalogue : Confused(q, c)}}
Clear(parts, t) == {s \in parts : s.kind \in Constraints => s.name \notin Mistakable(t)}

(* A table is shown with its own parts and no other's. Only where a        *)
(* constraint of its database is confused with one of its own may that one *)
(* be repeated, have the wrong columns, or have the other beside it.       *)
ShownAs(entry, t) ==
  /\ entry.name = <<t.name>>
  /\ Clear(entry.parts, t) = Clear(PromisedParts(t), t)
  /\ \A s \in PromisedParts(t) : \E u \in entry.parts : u.kind = s.kind /\ u.name = s.name

Stable == added = {} /\ removed = {}

(* Of a catalogue that does not change, the pages are what the tool        *)
(* promises from the offset on, in the order of names, nothing twice, and  *)
(* at the end nothing is missing: the lookahead row is neither shown nor   *)
(* skipped, a cursor beyond i64::MAX does not start over, rows of one name *)
(* keep their order from page to page, a detailed page has what a brief    *)
(* one has, and a table is shown with its own parts and no other's, as far *)
(* as MySQL's joins by name tell constraints apart.                        *)
StableListedOnce ==
  Stable =>
    LET promised == {o \in catalogue : Promised(o)}
        listed == {fetched[i] : i \in DOMAIN fetched}
    IN /\ listed \subseteq promised
       /\ \A i, j \in DOMAIN fetched : i < j => fetched[i] # fetched[j] /\ fetched[i].name <= fetched[j].name
       /\ pc = "end" =>
            /\ Cardinality(promised \ listed) = IF first < Cardinality(promised) THEN first ELSE Cardinality(promised)
            /\ \A o \in promised \ listed, e \in listed : o.name <= e.name
       /\ request.tool = "listTables" =>
            \A i \in DOMAIN shown : \E t \in listed : ShownAs(shown[i], t)

(* Changes between two calls shift the pages by what changed and no more:  *)
(* an object that was there all the time is skipped only if one before it  *)
(* was dropped, and repeated only if one before it was created.            *)
ChangesShiftOnly ==
  pc = "end" /\ first = 0 =>
    \A o \in {p \in catalogue \ added : Promised(p)} :
      LET times == Cardinality({i \in DOMAIN fetched : fetched[i] = o})
      IN /\ times = 0 => \E d \in removed \ {o} : Promised(d) /\ d.name <= o.name
         /\ times > 1 => \E d \in added : Promised(d) /\ d.name <= o.name

(* Paging ends, from any cursor and whatever the others do, as long as the *)
(* listing has fewer than i64::MAX entries.                                *)
PagingEnds == (pc = "paging") ~> (pc = "end")

(* "detailed: when true, the response includes per-trigger metadata so a   *)
(* single call enumerates triggers and inspects them" (features.mdx): an   *)
(* entry for every row.                                                    *)
DetailedShowsEveryRow ==
  request.detailed /\ Stable /\ pc = "end" => Len(shown) = Len(fetched)
=============================================================================
