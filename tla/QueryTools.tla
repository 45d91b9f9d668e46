------------------------------ MODULE QueryTools ------------------------------
(***************************************************************************)
(* The query tools of the three backends (crates/mysql, crates/postgres    *)
(* and crates/sqlite, src/tools) and the statements they run on pooled     *)
(* connections (crates/sql/src/connection.rs, timeout.rs): validation, the *)
(* read-only transaction, the query timeout that drops a call at any       *)
(* await, and what a connection carries from one call to the next. How a   *)
(* pool is found is PoolCache; what redaction does is RedactWalk.          *)
(*                                                                         *)
(* A connection executes what it was sent whether or not the caller still  *)
(* waits. Its caller owns it until the pool has it back. What a client's   *)
(* own statements do to its session stays, and sqlx knows nothing of a     *)
(* transaction that such a statement begins.                               *)
(***************************************************************************)
EXTENDS SqlReadOnly, Tools

CONSTANTS Calls,    \* tool calls, each made once
          Conns,    \* pooled connections
          Dbs,      \* databases
          Home,     \* the database of the pool a connection belongs to
          Configs,  \* the configurations served, see Config
          NoCall,   \* not a call
          NoDb      \* not a database: the call names none

ASSUME CallsAssumption == NoCall \notin Calls
ASSUME DbsAssumption == Home \in [Conns -> Dbs] /\ NoDb \notin Dbs
ASSUME ConfigAssumption ==
  Configs \subseteq [backend : {"mysql", "postgres", "sqlite"}, readOnly : BOOLEAN,
                     timeout : BOOLEAN, default : Dbs, pinned : BOOLEAN]

VARIABLES
  config,   \* the configuration the process was started with
  pc,       \* where each call stands
  request,  \* its tool and the database it named
  effects,  \* what each statement it sends would do
  answer,   \* what it returned
  owner,    \* the call that has taken each connection
  sent,     \* the command a connection has not executed yet
  reply,    \* what it answered to the last command
  tx,       \* TRUE in a read-only transaction
  guard,    \* TRUE while sqlx must roll back when the caller is dropped
  open,     \* the call whose statement began a transaction that still runs
  session,  \* the current database of the connection's session
  setting,  \* the last call to change a session setting, if it still holds
  saved,    \* setting, when the transaction began
  done      \* history: what each call has changed, and where it ran

callVars == <<pc, request, effects, answer>>
sessionVars == <<tx, open, session, setting, saved>>
connVars == <<owner, sent, reply, guard>>
vars == <<config, callVars, connVars, sessionVars, done>>

Init ==
  /\ config \in Configs
  /\ pc = [c \in Calls |-> "idle"]
  /\ request = [c \in Calls |-> [tool |-> "readQuery", db |-> NoDb]]
  /\ effects = [c \in Calls |-> <<>>]
  /\ answer = [c \in Calls |-> "none"]
  /\ owner = [k \in Conns |-> NoCall]
  /\ sent = [k \in Conns |-> "none"]
  /\ reply = [k \in Conns |-> "none"]
  /\ tx = [k \in Conns |-> FALSE]
  /\ guard = [k \in Conns |-> FALSE]
  /\ open = [k \in Conns |-> NoCall]
  /\ session = Home
  /\ setting = [k \in Conns |-> NoCall]
  /\ saved = [k \in Conns |-> NoCall]
  /\ done = {}

-----------------------------------------------------------------------------
(* The calls a client can make: explainQuery with `analyze` is called      *)
(* analyzeQuery here. Only a tool with the parameter lets it name a        *)
(* database.                                                               *)
Registered == [c \in Configs |-> Router(c.backend, c.readOnly, c.pinned)]
ToolOf(call) == CHOOSE t \in Registered[config] :
                  t.name = IF call = "analyzeQuery" THEN "explainQuery" ELSE call
QueryCalls == {"readQuery", "explainQuery", "writeQuery", "dropTable"}
Callable ==
  ({t.name : t \in Registered[config]} \cap QueryCalls)
  \cup {"analyzeQuery" : t \in {u \in Registered[config] : "analyze" \in u.params}}
Named(call) == IF "database" \in ToolOf(call).params THEN Dbs \cup {NoDb} ELSE {NoDb}

(* What a tool checks, how it wraps the statement, and whether it runs it  *)
(* with fetch_json_read_only instead of fetch_json or execute.             *)
Plan(check, wrap, readOnly) == [check |-> check, wrap |-> wrap, readOnly |-> readOnly]

MysqlRead == Plan("readOnly", "none", TRUE)
MysqlWrite == Plan("none", "none", FALSE)
MysqlDrop == Plan("readWrite", "drop", FALSE)
MysqlExplain(analyze) ==
  Plan(IF analyze /\ config.readOnly THEN "readOnly" ELSE "single",
       IF analyze THEN "analyze" ELSE "explain", config.readOnly)

PgRead == Plan("readOnly", "none", TRUE)
PgWrite == Plan("none", "none", FALSE)
PgDrop == Plan("readWrite", "drop", FALSE)
PgExplain(analyze) ==
  Plan(IF analyze /\ config.readOnly THEN "readOnly" ELSE "single",
       IF analyze THEN "analyze" ELSE "explain", config.readOnly)

SqliteRead == Plan("readOnly", "none", FALSE)
SqliteWrite == Plan("none", "none", FALSE)
SqliteDrop == Plan("readWrite", "drop", FALSE)
SqliteExplain == Plan("single", "explain", FALSE)

PlanOf(backend, call) ==
  CASE backend = "mysql" ->
         CASE call = "readQuery" -> MysqlRead
           [] call = "writeQuery" -> MysqlWrite
           [] call = "dropTable" -> MysqlDrop
           [] OTHER -> MysqlExplain(call = "analyzeQuery")
    [] backend = "postgres" ->
         CASE call = "readQuery" -> PgRead
           [] call = "writeQuery" -> PgWrite
           [] call = "dropTable" -> PgDrop
           [] OTHER -> PgExplain(call = "analyzeQuery")
    [] backend = "sqlite" ->
         CASE call = "readQuery" -> SqliteRead
           [] call = "writeQuery" -> SqliteWrite
           [] call = "dropTable" -> SqliteDrop
           [] OTHER -> SqliteExplain

Validate(plan, text) ==
  CASE plan.check = "readOnly" -> ValidateReadOnly(text)
    [] plan.check = "single" -> ValidateSingleStatement(text)
    [] plan.check = "readWrite" /\ config.readOnly -> "read-only"
    [] OTHER -> "one"

Wrapped(plan, s) ==
  CASE plan.wrap = "explain" -> Node("explain", {}, {s})
    [] plan.wrap = "analyze" -> Node("explain", {"analyze"}, {s})
    [] plan.wrap = "drop" -> Node("write", {}, {})
    [] OTHER -> s

(* SQLite's EXPLAIN only prints a program; SQLite has no functions that    *)
(* change the session and none of a user's. Only MySQL has USE.            *)
Does(plan, s) ==
  LET statement == Wrapped(plan, s) IN
    CASE config.backend = "sqlite" ->
           IF statement.kind = "explain" THEN {}
           ELSE ((Effects[statement] \ {"use"})
                   \ (IF statement.kind = "set" THEN {} ELSE {"setting"}))
                  \ (IF \E n \in Visited[s] : n.kind = "write" THEN {} ELSE {"data"})
      [] config.backend = "postgres" -> Effects[statement] \ {"use"}
      [] OTHER -> Effects[statement]

ReadOnlyTransaction(call) == PlanOf(config.backend, call).readOnly

TargetDb(c) == IF request[c].db = NoDb THEN config.default ELSE request[c].db

(* A call, made once, up to its first await. Only writeQuery can send      *)
(* several statements, or none: it validates nothing.                      *)
Invoke(c, tool, text, db) ==
  /\ request' = [request EXCEPT ![c] = [tool |-> tool, db |-> db]]
  /\ LET plan == PlanOf(config.backend, tool) IN
       IF Accepted(Validate(plan, text))
       THEN /\ pc' = [pc EXCEPT ![c] = "acquire"]
            /\ effects' = [effects EXCEPT ![c] = [i \in DOMAIN text.stmts |-> Does(plan, text.stmts[i])]]
            /\ UNCHANGED answer
       ELSE /\ pc' = [pc EXCEPT ![c] = "done"]
            /\ answer' = [answer EXCEPT ![c] = "refused"]
            /\ UNCHANGED effects
  /\ UNCHANGED <<config, connVars, sessionVars, done>>

(* As if one pool served all databases. *)
ServesAny(c, k) == owner[k] = NoCall
(* pool(database): the connections of the pool of the database it names. *)
Serves(c, k) == owner[k] = NoCall /\ Home[k] = TargetDb(c)

(* As if the transaction were begun and ended by statements of our own,    *)
(* with nothing that ends it when the caller is dropped.                   *)
AcquireUnguarded(c, k) ==
  /\ pc[c] = "acquire"
  /\ Serves(c, k)
  /\ owner' = [owner EXCEPT ![k] = c]
  /\ LET readOnly == ReadOnlyTransaction(request[c].tool) IN
       /\ pc' = [pc EXCEPT ![c] = IF readOnly THEN "begin" ELSE "run"]
       /\ sent' = [sent EXCEPT ![k] = IF readOnly THEN "begin" ELSE "statement"]
  /\ UNCHANGED <<config, request, effects, answer, reply, guard, sessionVars, done>>

(* Inside execute_with_timeout: take a connection of the pool and send     *)
(* START TRANSACTION READ ONLY, or the statement itself.                   *)
Acquire(c, k) ==
  /\ pc[c] = "acquire"
  /\ Serves(c, k)
  /\ owner' = [owner EXCEPT ![k] = c]
  /\ LET readOnly == ReadOnlyTransaction(request[c].tool) IN
       /\ pc' = [pc EXCEPT ![c] = IF readOnly THEN "begin" ELSE "run"]
       /\ sent' = [sent EXCEPT ![k] = IF readOnly THEN "begin" ELSE "statement"]
       /\ guard' = [guard EXCEPT ![k] = readOnly]
  /\ UNCHANGED <<config, request, effects, answer, reply, sessionVars, done>>

(* The acquire timeout, a closed pool or a failed connect. *)
AcquireErr(c) ==
  /\ pc[c] = "acquire"
  /\ pc' = [pc EXCEPT ![c] = "done"]
  /\ answer' = [answer EXCEPT ![c] = "connection"]
  /\ UNCHANGED <<config, request, effects, connVars, sessionVars, done>>

Waits(c, k) == owner[k] = c /\ reply[k] # "none" /\ sent[k] = "none"

(* The transaction has begun: fetch_all. *)
Began(c, k) ==
  /\ pc[c] = "begin" /\ Waits(c, k) /\ reply[k] = "ok"
  /\ pc' = [pc EXCEPT ![c] = "run"]
  /\ sent' = [sent EXCEPT ![k] = "statement"]
  /\ reply' = [reply EXCEPT ![k] = "none"]
  /\ UNCHANGED <<config, request, effects, answer, owner, guard, sessionVars, done>>

(* The statement has run: roll back, or hand the rows on. *)
Ran(c, k) ==
  /\ pc[c] = "run" /\ Waits(c, k) /\ reply[k] = "ok"
  /\ reply' = [reply EXCEPT ![k] = "none"]
  /\ IF ReadOnlyTransaction(request[c].tool)
     THEN /\ pc' = [pc EXCEPT ![c] = "rollback"]
          /\ sent' = [sent EXCEPT ![k] = "rollback"]
     ELSE /\ pc' = [pc EXCEPT ![c] = "redact"]
          /\ UNCHANGED sent
  /\ UNCHANGED <<config, request, effects, answer, owner, guard, sessionVars, done>>

RolledBack(c, k) ==
  /\ pc[c] = "rollback" /\ Waits(c, k) /\ reply[k] = "ok"
  /\ pc' = [pc EXCEPT ![c] = "redact"]
  /\ reply' = [reply EXCEPT ![k] = "none"]
  /\ guard' = [guard EXCEPT ![k] = FALSE]
  /\ UNCHANGED <<config, request, effects, answer, owner, sent, sessionVars, done>>

(* `?` on any of the three: the transaction is dropped with the future.    *)
Failed(c, k) ==
  /\ pc[c] \in {"begin", "run", "rollback"} /\ Waits(c, k) /\ reply[k] = "error"
  /\ pc' = [pc EXCEPT ![c] = "done"]
  /\ answer' = [answer EXCEPT ![c] = "query"]
  /\ reply' = [reply EXCEPT ![k] = "none"]
  /\ UNCHANGED <<config, request, effects, owner, sent, guard, sessionVars, done>>

(* As if a timeout were reported like a failure of the statement. *)
QueryTimeoutAsFailure(c) ==
  /\ config.timeout
  /\ pc[c] \in {"acquire", "begin", "run", "rollback"}
  /\ pc' = [pc EXCEPT ![c] = "done"]
  /\ answer' = [answer EXCEPT ![c] = "query"]
  /\ UNCHANGED <<config, request, effects, connVars, sessionVars, done>>

(* execute_with_timeout: the future is dropped wherever it is. *)
QueryTimeout(c) ==
  /\ config.timeout
  /\ pc[c] \in {"acquire", "begin", "run", "rollback"}
  /\ pc' = [pc EXCEPT ![c] = "done"]
  /\ answer' = [answer EXCEPT ![c] = "timeout"]
  /\ UNCHANGED <<config, request, effects, connVars, sessionVars, done>>

(* redact_rows, then the response; dropTable has no rows to redact. *)
Redact(c) ==
  /\ pc[c] = "redact"
  /\ pc' = [pc EXCEPT ![c] = "done"]
  /\ \E a \in IF request[c].tool = "dropTable" THEN {"ok"} ELSE {"ok", "redaction"} :
       answer' = [answer EXCEPT ![c] = a]
  /\ UNCHANGED <<config, request, effects, connVars, sessionVars, done>>

-----------------------------------------------------------------------------
(* The server and sqlx, from how the code uses them.                       *)

Doing(c, n) == UNION {effects[c][i] : i \in 1..n}
Record(c, k, es) == {[call |-> c, in |-> session[k], effect |-> e] : e \in es \cap {"data", "outside", "run"}}

(* The transaction that is open after the first n statements: one of them  *)
(* began it, or it was, unless they end it. COMMIT may begin the next, and *)
(* MySQL commits before it changes a table.                                *)
Left(c, n, o) ==
  (IF "begin" \in Doing(c, n) THEN {c} ELSE {o})
    \cup (IF "end" \in Doing(c, n) \/ (config.backend = "mysql" /\ "data" \in Doing(c, n)) THEN {NoCall} ELSE {})

(* PostgreSQL's roll-back discards the settings changed in its transaction. *)
Restored(k) == IF config.backend = "postgres" THEN saved[k] ELSE setting[k]

(* START TRANSACTION READ ONLY. In an open transaction PostgreSQL warns,   *)
(* and goes on in it, read-only; or refuses, if an error has aborted it.   *)
(* MySQL commits it, though with autocommit off the next one will follow.  *)
Begin(k) ==
  /\ sent[k] = "begin"
  /\ \/ /\ tx' = [tx EXCEPT ![k] = TRUE]
        /\ saved' = [saved EXCEPT ![k] = IF open[k] = NoCall THEN setting[k] ELSE @]
        /\ \E o \in {open[k]} \cup (IF config.backend = "mysql" THEN {NoCall} ELSE {}) : open' = [open EXCEPT ![k] = o]
        /\ reply' = [reply EXCEPT ![k] = "ok"]
     \/ /\ config.backend = "postgres" /\ open[k] # NoCall
        /\ reply' = [reply EXCEPT ![k] = "error"]
        /\ UNCHANGED <<tx, saved, open>>
  /\ UNCHANGED <<session, setting, done>>

(* ROLLBACK, of PostgreSQL's one transaction with all that is in it. *)
Rollback(k) ==
  /\ sent[k] = "rollback"
  /\ tx' = [tx EXCEPT ![k] = FALSE]
  /\ setting' = [setting EXCEPT ![k] = Restored(k)]
  /\ open' = [open EXCEPT ![k] = IF config.backend = "postgres" THEN NoCall ELSE @]
  /\ reply' = [reply EXCEPT ![k] = "ok"]
  /\ UNCHANGED <<session, saved, done>>

(* In a read-only transaction a statement that writes fails. *)
Rejected(k, c) == tx[k] /\ "data" \in Doing(c, Len(effects[c]))

Run(k, c) ==
  LET does == Doing(c, Len(effects[c])) IN
    /\ sent[k] = "statement" /\ ~Rejected(k, c)
    /\ \E d \in IF "use" \in does THEN Dbs ELSE {session[k]} : session' = [session EXCEPT ![k] = d]
    /\ \E v \in {IF "setting" \in does THEN c ELSE setting[k]} \cup (IF "end" \in does THEN {Restored(k)} ELSE {}) :
         setting' = [setting EXCEPT ![k] = v]
    /\ \E o \in Left(c, Len(effects[c]), open[k]) : open' = [open EXCEPT ![k] = o]
    /\ saved' = [saved EXCEPT ![k] = IF "begin" \in does /\ open[k] = NoCall THEN setting[k] ELSE @]
    /\ reply' = [reply EXCEPT ![k] = "ok"]
    /\ done' = done \cup Record(c, k, does \cup {"run"})
    /\ UNCHANGED tx

(* A statement can fail by itself, or with the read-only transaction,      *)
(* though a lock it took, a signal it sent or a variable it set stays. The *)
(* unprepared protocol takes several statements, or refuses them: the      *)
(* first that fails ends them. PostgreSQL undoes the ones before it, up to *)
(* a COMMIT; elsewhere an error can end the transaction.                   *)
Fails(k, c) ==
  LET n == Len(effects[c])
      pg == config.backend = "postgres"
  IN /\ sent[k] = "statement"
     /\ reply' = [reply EXCEPT ![k] = "error"]
     /\ \E i \in {0} \cup 1..(n - 1) :
          LET undone == Rejected(k, c) \/ (pg /\ "end" \notin Doing(c, i))
              reached == IF Rejected(k, c) THEN Doing(c, n) ELSE Doing(c, i)
          IN /\ done' = done \cup Record(c, k, IF undone THEN reached \cap {"outside"} ELSE reached)
             /\ \E o \in Left(c, i, open[k]) \cup (IF pg THEN {} ELSE {NoCall}) : open' = [open EXCEPT ![k] = o]
             /\ saved' = [saved EXCEPT ![k] = IF "begin" \in Doing(c, i) /\ open[k] = NoCall THEN setting[k] ELSE @]
     /\ \E v \in {setting[k]} \cup (IF ~pg /\ "setting" \in Doing(c, n) THEN {c} ELSE {}) :
          setting' = [setting EXCEPT ![k] = v]
     /\ UNCHANGED <<tx, session>>

(* A connection executes the command it was sent. *)
Execute(k) ==
  /\ sent' = [sent EXCEPT ![k] = "none"]
  /\ Begin(k) \/ Rollback(k) \/ Run(k, owner[k]) \/ Fails(k, owner[k])
  /\ UNCHANGED <<config, callVars, owner, guard>>

(* A connection whose caller is through goes back to its pool: what it was *)
(* sent is executed and answered first, and a transaction that was dropped *)
(* is rolled back; one that did not begin may be.                          *)
Return(k) ==
  /\ owner[k] # NoCall /\ sent[k] = "none"
  /\ pc[owner[k]] \in {"redact", "done"}
  /\ owner' = [owner EXCEPT ![k] = NoCall]
  /\ reply' = [reply EXCEPT ![k] = "none"]
  /\ guard' = [guard EXCEPT ![k] = FALSE]
  /\ \E undo \in {guard[k], guard[k] /\ tx[k]} :
       /\ tx' = [tx EXCEPT ![k] = @ /\ ~undo]
       /\ setting' = [setting EXCEPT ![k] = IF undo THEN Restored(k) ELSE @]
       /\ open' = [open EXCEPT ![k] = IF undo /\ config.backend = "postgres" THEN NoCall ELSE @]
  /\ UNCHANGED <<config, callVars, sent, session, saved, done>>

(* A connection breaks: its transaction ends at the server, the caller     *)
(* sees an I/O error, and the pool opens a fresh one when asked.           *)
Break(k) ==
  /\ owner[k] # NoCall
  /\ LET c == owner[k] IN
       IF pc[c] \in {"begin", "run", "rollback"}
       THEN /\ pc' = [pc EXCEPT ![c] = "done"]
            /\ answer' = [answer EXCEPT ![c] = "connection"]
       ELSE UNCHANGED <<pc, answer>>
  /\ owner' = [owner EXCEPT ![k] = NoCall]
  /\ sent' = [sent EXCEPT ![k] = "none"]
  /\ reply' = [reply EXCEPT ![k] = "none"]
  /\ guard' = [guard EXCEPT ![k] = FALSE]
  /\ tx' = [tx EXCEPT ![k] = FALSE]
  /\ session' = [session EXCEPT ![k] = Home[k]]
  /\ setting' = [setting EXCEPT ![k] = NoCall]
  /\ open' = [open EXCEPT ![k] = NoCall]
  /\ UNCHANGED <<config, request, effects, saved, done>>

-----------------------------------------------------------------------------
Progress(c, k) ==
  Acquire(c, k) \/ Began(c, k) \/ Ran(c, k) \/ RolledBack(c, k) \/ Failed(c, k)

Next ==
  \/ \E c \in Calls : \/ /\ pc[c] = "idle"
                         /\ \E tool \in Callable, text \in Text :
                              \E db \in Named(tool) : Invoke(c, tool, text, db)
                      \/ \E k \in Conns : Progress(c, k)
                      \/ AcquireErr(c) \/ QueryTimeout(c) \/ Redact(c)
  \/ \E k \in Conns : Execute(k) \/ Return(k) \/ Break(k)

Spec == Init /\ [][Next]_vars

-----------------------------------------------------------------------------
(* Every variable keeps its type. *)
TypeOK ==
  /\ config \in Configs
  /\ pc \in [Calls -> {"idle", "acquire", "begin", "run", "rollback", "redact", "done"}]
  /\ request \in [Calls -> [tool : QueryCalls \cup {"analyzeQuery"}, db : Dbs \cup {NoDb}]]
  /\ effects \in [Calls -> Seq(SUBSET Effect)]
  /\ answer \in [Calls -> {"none", "ok", "refused", "query", "connection", "timeout", "redaction"}]
  /\ owner \in [Conns -> Calls \cup {NoCall}]
  /\ sent \in [Conns -> {"none", "begin", "statement", "rollback"}]
  /\ reply \in [Conns -> {"none", "ok", "error"}]
  /\ tx \in [Conns -> BOOLEAN]
  /\ guard \in [Conns -> BOOLEAN]
  /\ open \in [Conns -> Calls \cup {NoCall}]
  /\ session \in [Conns -> Dbs]
  /\ setting \in [Conns -> Calls \cup {NoCall}]
  /\ saved \in [Conns -> Calls \cup {NoCall}]
  /\ done \in SUBSET [call : Calls, in : Dbs, effect : Effect \cup {"run"}]

(* In read-only mode no tool changes anything, and in no mode one that is  *)
(* annotated `read_only`, except explainQuery, whose ANALYZE and whose     *)
(* planner can run what they explain; whatever a timeout or a broken       *)
(* connection cuts short: neither data, which the transaction protects     *)
(* from functions the validator does not know, nor locks, signals and      *)
(* files, which only the validator does.                                   *)
ReadsChangeNothing ==
  \A w \in done : w.effect # "run" =>
    LET tool == ToolOf(request[w.call].tool) IN
      ~config.readOnly /\ (tool.hints.readOnly => tool.name = "explainQuery")

(* fetch_json_read_only: "The transaction is always rolled back, which on  *)
(* PostgreSQL also discards session settings." However a call ended, it    *)
(* leaves no read-only transaction on its connection, and nothing of the   *)
(* kind in read-only mode. Two things do stay for the next call: a         *)
(* transaction that a client began through writeQuery, and settings, those *)
(* of a read on MySQL only, where they are no part of a transaction.       *)
IdleConnectionsClean ==
  \A k \in Conns : owner[k] = NoCall =>
    /\ ~tx[k]
    /\ open[k] # NoCall => ~config.readOnly /\ request[open[k]].tool = "writeQuery"
    /\ setting[k] # NoCall =>
         \/ config.backend = "mysql"
         \/ ~config.readOnly /\ request[setting[k]].tool \in {"writeQuery", "analyzeQuery"}

AllOrNothing(c) ==
  \/ Len(effects[c]) < 2
  \/ config.backend = "postgres" /\ "end" \notin Doing(c, Len(effects[c]))

(* What a call was answered says what it did: a refused call never ran,    *)
(* one that failed at the server changed nothing that a transaction can    *)
(* undo, and a success ran. Only a timeout, a broken connection, failed    *)
(* redaction and several statements leave it open, these on PostgreSQL     *)
(* only with a COMMIT among them.                                          *)
AnswersTellTheEffect ==
  \A c \in Calls :
    LET did == {w.effect : w \in {v \in done : v.call = c}}
    IN /\ answer[c] = "refused" => did = {}
       /\ answer[c] = "query" /\ AllOrNothing(c) => "data" \notin did
       /\ answer[c] = "ok" => "run" \in did

(* The request's field "Database to run the query against": a call runs   *)
(* in the database it names, or in the configured one. The one exception   *)
(* is a connection that an earlier call's USE has taken elsewhere, which   *)
(* only MySQL has and nothing resets.                                      *)
RunsInNamedDatabase ==
  \A w \in done : w.effect = "run" =>
    \/ w.in = TargetDb(w.call)
    \/ /\ config.backend = "mysql"
       /\ \E v \in done : v.call # w.call /\ v.effect = "run" /\ "use" \in Doing(v.call, Len(effects[v.call]))
=============================================================================
