------------------------------ MODULE PoolCache ------------------------------
(***************************************************************************)
(* The per-database pools of the MySQL and PostgreSQL backends             *)
(* (crates/mysql/src/connection.rs, crates/postgres/src/connection.rs: the *)
(* same code), as the tool calls use them: a moka cache of lazily created  *)
(* pools, eviction and invalidation that close a pool in a background      *)
(* task, calls that took a pool from the cache and use it later,           *)
(* dropDatabase, and the shutdown that closes what is cached.              *)
(*                                                                         *)
(* A call resolves at most one pool, so a pool is named by the call that   *)
(* created it.                                                             *)
(***************************************************************************)
EXTENDS Naturals, FiniteSets

CONSTANTS Calls,      \* the tool calls of the run, each made once
          Dbs,        \* databases of the server
          Default,    \* the one the server is configured with
          NoPool,     \* not a call: no pool
          Capacity,   \* POOL_CACHE_CAPACITY
          PoolSize,   \* config.max_pool_size
          Timeout,    \* TRUE when query_timeout is not zero
          Graceful    \* TRUE over HTTP: the transport ends after its requests

ASSUME CallsAssumption == NoPool \notin Calls /\ IsFiniteSet(Calls)
ASSUME DbsAssumption == Default \in Dbs
ASSUME SizeAssumption == Capacity \in Nat /\ PoolSize \in Nat \ {0}
ASSUME FlagsAssumption == Timeout \in BOOLEAN /\ Graceful \in BOOLEAN

VARIABLES
  pc,        \* where each call stands
  kind,      \* what it does: "query" or "drop"
  db,        \* the database it names
  using,     \* the pool it resolved
  result,    \* what it returned
  cache,     \* the cached pool of each database
  pool,      \* each pool: "none", "open", "closed" (draining) or "drained"
  closers,   \* evicted pools whose spawned close task has not run yet
  exists,    \* the server: which databases exist
  drops,     \* the server: how often each database was dropped
  born,      \* how often a pool's database had been dropped when it was created
  mine,      \* which of those drops was this call's
  returned,  \* the latest drop of each database whose call returned success
  floor,     \* that, when the call was made
  shutdown,  \* "no", "running" or "done"
  unvisited, \* databases whose entry the shutdown has not visited
  awaiting   \* the pool whose close the shutdown awaits

callVars == <<pc, kind, db, using, result, floor, mine>>
poolVars == <<cache, pool, closers, born>>
serverVars == <<exists, drops, returned>>
stopVars == <<shutdown, unvisited, awaiting>>
vars == <<callVars, poolVars, serverVars, stopVars>>

(* pool(target): a drop runs on the default database's pool. *)
Target(c) == IF kind[c] = "drop" THEN Default ELSE db[c]
Running(p) == {c \in Calls : pc[c] = "running" /\ using[c] = p}
Cached == {cache[d] : d \in Dbs} \ {NoPool}

Init ==
  /\ pc = [c \in Calls |-> "idle"]
  /\ kind = [c \in Calls |-> "query"]
  /\ db = [c \in Calls |-> Default]
  /\ using = [c \in Calls |-> NoPool]
  /\ result = [c \in Calls |-> "none"]
  /\ floor = [c \in Calls |-> 0]
  /\ mine = [c \in Calls |-> 0]
  /\ cache = [d \in Dbs |-> NoPool]
  /\ pool = [p \in Calls |-> "none"]
  /\ closers = {}
  /\ born = [p \in Calls |-> 0]
  /\ exists = [d \in Dbs |-> TRUE]
  /\ drops = [d \in Dbs |-> 0]
  /\ returned = [d \in Dbs |-> 0]
  /\ shutdown = "no"
  /\ unvisited = {}
  /\ awaiting = NoPool

-----------------------------------------------------------------------------
(* A tool call.                                                            *)

Goto(c, l) == pc' = [pc EXCEPT ![c] = l]
Done(c, r) == Goto(c, "done") /\ result' = [result EXCEPT ![c] = r]

(* The default database is never dropped. *)
Call(c, k, d) ==
  /\ shutdown = "no"
  /\ pc[c] = "idle"
  /\ kind' = [kind EXCEPT ![c] = k]
  /\ db' = [db EXCEPT ![c] = d]
  /\ floor' = [floor EXCEPT ![c] = returned[d]]
  /\ IF k = "drop" /\ d = Default
       THEN Done(c, "query_error")
       ELSE Goto(c, "resolving") /\ UNCHANGED result
  /\ UNCHANGED <<using, mine, poolVars, serverVars, stopVars>>

Use(c, p) == using' = [using EXCEPT ![c] = p] /\ Goto(c, "acquiring")

(* pools.get(database) *)
Get(c) ==
  /\ pc[c] = "resolving"
  /\ IF cache[Target(c)] # NoPool
       THEN Use(c, cache[Target(c)])
       ELSE Goto(c, "missed") /\ UNCHANGED using
  /\ UNCHANGED <<kind, db, result, floor, mine, poolVars, serverVars, stopVars>>

(* Mutant: insert, as if nobody else could have created the pool since. *)
Insert(c) ==
  /\ pc[c] = "missed"
  /\ Use(c, c)
  /\ pool' = [pool EXCEPT ![c] = "open"]
  /\ born' = [born EXCEPT ![c] = drops[Target(c)]]
  /\ cache' = [cache EXCEPT ![Target(c)] = c]
  /\ UNCHANGED <<kind, db, result, floor, mine, closers, serverVars, stopVars>>

(* pools.get_with(database, create_lazy_pool): one creation per entry. *)
GetWith(c) ==
  /\ pc[c] = "missed"
  /\ IF cache[Target(c)] # NoPool
       THEN Use(c, cache[Target(c)]) /\ UNCHANGED poolVars
       ELSE /\ Use(c, c)
            /\ pool' = [pool EXCEPT ![c] = "open"]
            /\ born' = [born EXCEPT ![c] = drops[Target(c)]]
            /\ cache' = [cache EXCEPT ![Target(c)] = c]
            /\ UNCHANGED closers
  /\ UNCHANGED <<kind, db, result, floor, mine, serverVars, stopVars>>

(* The query takes a connection of the pool. *)
Acquire(c) ==
  /\ pc[c] = "acquiring"
  /\ pool[using[c]] = "open"
  /\ Cardinality(Running(using[c])) < PoolSize
  /\ Goto(c, "running")
  /\ UNCHANGED <<kind, db, using, result, floor, mine, poolVars, serverVars, stopVars>>

(* PoolClosed, PoolTimedOut or an I/O error: SqlError::Connection.  A      *)
(* closed pool refuses at once; the acquire timeout ends every wait.       *)
AcquireErr(c) ==
  /\ pc[c] = "acquiring"
  /\ Done(c, "connection_error")
  /\ UNCHANGED <<kind, db, using, floor, mine, poolVars, serverVars, stopVars>>

(* The statement ends; its connection goes back to the pool. *)
Finish(c) ==
  /\ pc[c] = "running"
  /\ kind[c] = "query"
  /\ \E r \in {"ok", "query_error", "connection_error"} : Done(c, r)
  /\ UNCHANGED <<kind, db, using, floor, mine, poolVars, serverVars, stopVars>>

DropDone(c) ==
  /\ exists[db[c]]
  /\ exists' = [exists EXCEPT ![db[c]] = FALSE]
  /\ drops' = [drops EXCEPT ![db[c]] = @ + 1]
  /\ UNCHANGED returned

(* DROP DATABASE succeeded: the pool is still to be invalidated. *)
DropOk(c) ==
  /\ pc[c] = "running"
  /\ kind[c] = "drop"
  /\ DropDone(c)
  /\ mine' = [mine EXCEPT ![c] = drops[db[c]] + 1]
  /\ Goto(c, "invalidating")
  /\ UNCHANGED <<kind, db, using, result, floor, poolVars, stopVars>>

DropErr(c) ==
  /\ pc[c] = "running"
  /\ kind[c] = "drop"
  /\ \E r \in {"query_error", "connection_error"} : Done(c, r)
  /\ UNCHANGED <<kind, db, using, floor, mine, poolVars, serverVars, stopVars>>

(* Mutants: the call times out only in name; nothing is evicted; the entry *)
(* stays and its pool is closed.                                           *)
NoQueryTimeout(c) == FALSE /\ UNCHANGED vars
InvalidateNothing(c) ==
  /\ pc[c] = "invalidating"
  /\ returned' = [returned EXCEPT ![db[c]] = IF mine[c] > @ THEN mine[c] ELSE @]
  /\ Done(c, "ok")
  /\ UNCHANGED <<kind, db, using, floor, mine, poolVars, exists, drops, stopVars>>
InvalidateInPlace(c) ==
  /\ pc[c] = "invalidating"
  /\ closers' = closers \cup ({cache[db[c]]} \ {NoPool})
  /\ returned' = [returned EXCEPT ![db[c]] = IF mine[c] > @ THEN mine[c] ELSE @]
  /\ Done(c, "ok")
  /\ UNCHANGED <<kind, db, using, floor, mine, cache, pool, born, exists, drops, stopVars>>

(* QueryTimeout: the future is dropped, and a DROP may have run all the    *)
(* same; its pool then stays cached.                                       *)
QueryTimeout(c) ==
  /\ Timeout
  /\ pc[c] \in {"acquiring", "running"}
  /\ Done(c, "timeout")
  /\ \/ UNCHANGED serverVars
     \/ pc[c] = "running" /\ kind[c] = "drop" /\ DropDone(c)
  /\ UNCHANGED <<kind, db, using, floor, mine, poolVars, stopVars>>

(* An entry leaves the cache: the listener spawns a task that closes it. *)
Discard(d) ==
  /\ cache' = [cache EXCEPT ![d] = NoPool]
  /\ closers' = closers \cup ({cache[d]} \ {NoPool})
  /\ UNCHANGED <<pool, born>>

Invalidate(c) ==
  /\ pc[c] = "invalidating"
  /\ Discard(db[c])
  /\ returned' = [returned EXCEPT ![db[c]] = IF mine[c] > @ THEN mine[c] ELSE @]
  /\ Done(c, "ok")
  /\ UNCHANGED <<kind, db, using, floor, mine, exists, drops, stopVars>>

-----------------------------------------------------------------------------
(* The cache, the pools and the server.                                    *)

(* moka's maintenance brings the cache back to its capacity; which entry   *)
(* goes is its policy's choice.                                            *)
Evict(d) ==
  /\ Cardinality(Cached) > Capacity
  /\ cache[d] # NoPool
  /\ Discard(d)
  /\ UNCHANGED <<callVars, serverVars, stopVars>>

(* The spawned task calls pool.close(): no connection is handed out any    *)
(* more ...                                                                *)
CloserRuns(p) ==
  /\ p \in closers
  /\ closers' = closers \ {p}
  /\ pool' = [pool EXCEPT ![p] = IF @ = "open" THEN "closed" ELSE @]
  /\ UNCHANGED <<callVars, cache, born, serverVars, stopVars>>

(* ... and close() returns when the last one is back. *)
Drain(p) ==
  /\ pool[p] = "closed"
  /\ Running(p) = {}
  /\ pool' = [pool EXCEPT ![p] = "drained"]
  /\ UNCHANGED <<callVars, cache, closers, born, serverVars, stopVars>>

CreateDatabase(d) ==
  /\ ~exists[d]
  /\ exists' = [exists EXCEPT ![d] = TRUE]
  /\ UNCHANGED <<callVars, poolVars, drops, returned, stopVars>>

-----------------------------------------------------------------------------
(* Server::shutdown, once the transport ended.                             *)

ShutdownBegin ==
  /\ shutdown = "no"
  /\ Graceful => \A c \in Calls : pc[c] \in {"idle", "done"}
  /\ shutdown' = "running"
  /\ unvisited' = Dbs
  /\ UNCHANGED <<callVars, poolVars, serverVars, awaiting>>

(* for (_, pool) in &self.pools { pool.close().await } *)
ShutdownVisit(d) ==
  /\ awaiting = NoPool
  /\ d \in unvisited
  /\ unvisited' = unvisited \ {d}
  /\ awaiting' = cache[d]
  /\ pool' = [p \in Calls |-> IF p = cache[d] /\ pool[p] = "open" THEN "closed" ELSE pool[p]]
  /\ UNCHANGED <<callVars, cache, closers, born, serverVars, shutdown>>

ShutdownNext ==
  /\ awaiting # NoPool
  /\ pool[awaiting] = "drained"
  /\ awaiting' = NoPool
  /\ UNCHANGED <<callVars, poolVars, serverVars, shutdown, unvisited>>

ShutdownEnd ==
  /\ shutdown = "running"
  /\ unvisited = {}
  /\ awaiting = NoPool
  /\ shutdown' = "done"
  /\ UNCHANGED <<callVars, poolVars, serverVars, unvisited, awaiting>>

(* The process has nothing left to do. *)
Exit ==
  /\ shutdown = "done"
  /\ \A c \in Calls : pc[c] \in {"idle", "done"}
  /\ UNCHANGED vars

-----------------------------------------------------------------------------
Step(c) ==
  \/ Get(c) \/ GetWith(c) \/ Acquire(c) \/ AcquireErr(c) \/ Invalidate(c)
Statement(c) == Finish(c) \/ DropOk(c) \/ DropErr(c)
Shutdown == (\E d \in Dbs : ShutdownVisit(d)) \/ ShutdownNext \/ ShutdownEnd

Next ==
  \/ \E c \in Calls : \/ \E k \in {"query", "drop"}, d \in Dbs : Call(c, k, d)
                      \/ Step(c) \/ Statement(c) \/ QueryTimeout(c)
  \/ \E d \in Dbs : Evict(d) \/ CreateDatabase(d)
  \/ \E p \in Calls : CloserRuns(p) \/ Drain(p)
  \/ ShutdownBegin \/ Shutdown \/ Exit

Spec == Init /\ [][Next]_vars

(* The runtime runs calls and background tasks, an acquire has its own     *)
(* timeout, and a statement ends only if the query timeout is on: the      *)
(* server need not answer.                                                 *)
Fairness ==
  /\ \A c \in Calls : WF_vars(Step(c)) /\ WF_vars(QueryTimeout(c))
  /\ \A p \in Calls : WF_vars(CloserRuns(p)) /\ WF_vars(Drain(p))
  /\ WF_vars(Shutdown)
FairSpec == Spec /\ Fairness

-----------------------------------------------------------------------------
(* Every variable keeps its type. *)
TypeOK ==
  /\ pc \in [Calls -> {"idle", "resolving", "missed", "acquiring", "running", "invalidating", "done"}]
  /\ kind \in [Calls -> {"query", "drop"}]
  /\ db \in [Calls -> Dbs]
  /\ using \in [Calls -> Calls \cup {NoPool}]
  /\ result \in [Calls -> {"none", "ok", "query_error", "connection_error", "timeout"}]
  /\ floor \in [Calls -> Nat]
  /\ mine \in [Calls -> Nat]
  /\ cache \in [Dbs -> Calls \cup {NoPool}]
  /\ pool \in [Calls -> {"none", "open", "closed", "drained"}]
  /\ closers \in SUBSET Calls
  /\ born \in [Calls -> Nat]
  /\ exists \in [Dbs -> BOOLEAN]
  /\ drops \in [Dbs -> Nat]
  /\ returned \in [Dbs -> Nat]
  /\ shutdown \in {"no", "running", "done"}
  /\ unvisited \in SUBSET Dbs
  /\ awaiting \in Calls \cup {NoPool}

(* Until the shutdown, what the cache hands out is a pool that is open and *)
(* not about to be closed, and no two databases share one: a closed entry  *)
(* would fail every later call for its database.                           *)
CachedPoolsUsable ==
  shutdown = "no" =>
    \A d \in Dbs : cache[d] # NoPool =>
      /\ pool[cache[d]] = "open"
      /\ cache[d] \notin closers
      /\ \A e \in Dbs : cache[e] = cache[d] => e = d

(* No pool is lost: one that is open is in the cache or about to be closed *)
(* (two calls that both miss must not create one each).                    *)
NoPoolLeaks ==
  \A p \in Calls : pool[p] = "open" => p \in Cached \cup closers

(* A call made after dropDatabase returned never runs on a pool that is    *)
(* older than the drop, even if the database was created again meanwhile.  *)
FreshAfterDrop ==
  \A c \in Calls : kind[c] = "query" /\ using[c] # NoPool => born[using[c]] >= floor[c]

(* The shutdown returns although it waits for running statements. *)
ShutdownReturns == (shutdown = "running") ~> (shutdown = "done")
=============================================================================
