--------------------------- MODULE PoolCacheProofs ---------------------------
(***************************************************************************)
(* The safety of PoolCache for any number of calls and databases, any      *)
(* capacity and any pool size.                                             *)
(***************************************************************************)
EXTENDS PoolCache, TLAPS

Early == {"idle", "resolving", "missed"}

(* What is cached, dying or in use has been created; a cached pool is not  *)
(* dying and has one key; the shutdown's own state is empty before it.     *)
PoolInv ==
  /\ \A c \in Calls : pc[c] \in Early => pool[c] = "none" /\ using[c] = NoPool
  /\ \A c \in Calls : using[c] # NoPool => pool[using[c]] # "none"
  /\ \A d \in Dbs : cache[d] # NoPool =>
       /\ pool[cache[d]] # "none"
       /\ cache[d] \notin closers
       /\ shutdown = "no" => pool[cache[d]] = "open"
       /\ \A e \in Dbs : cache[e] = cache[d] => e = d
  /\ \A p \in closers : pool[p] # "none"
  /\ shutdown = "no" => unvisited = {} /\ awaiting = NoPool

(* A cached pool is as young as the last drop that was answered, and no    *)
(* answered drop is later than the server's count.                         *)
AgeInv ==
  /\ \A d \in Dbs : returned[d] <= drops[d]
  /\ \A c \in Calls : pc[c] = "invalidating" => mine[c] <= drops[db[c]]
  /\ \A d \in Dbs : cache[d] # NoPool => born[cache[d]] >= returned[d]
  /\ \A c \in Calls : pc[c] \in {"resolving", "missed"} => floor[c] <= returned[db[c]]

Inv == TypeOK /\ PoolInv /\ NoPoolLeaks /\ AgeInv /\ FreshAfterDrop

(* Every action preserves the types. *)
LEMMA TypeStep == TypeOK /\ [Next]_vars => TypeOK'
<1> SUFFICES ASSUME TypeOK, [Next]_vars PROVE TypeOK'
  OBVIOUS
<1> USE CallsAssumption, DbsAssumption DEF TypeOK
<1>0. CASE UNCHANGED vars
  BY <1>0 DEF vars, callVars, poolVars, serverVars, stopVars
<1>1. ASSUME NEW c \in Calls, NEW k \in {"query", "drop"}, NEW d \in Dbs, Call(c, k, d)
      PROVE  TypeOK'
  BY <1>1 DEF Call, Done, Goto, poolVars, serverVars, stopVars
<1>2. ASSUME NEW c \in Calls, Get(c) PROVE TypeOK'
  BY <1>2 DEF Get, Use, Goto, Target, poolVars, serverVars, stopVars
<1>3. ASSUME NEW c \in Calls, GetWith(c) PROVE TypeOK'
  BY <1>3 DEF GetWith, Use, Goto, Target, poolVars, serverVars, stopVars
<1>4. ASSUME NEW c \in Calls, Acquire(c) \/ AcquireErr(c) PROVE TypeOK'
  BY <1>4 DEF Acquire, AcquireErr, Done, Goto, poolVars, serverVars, stopVars
<1>5. ASSUME NEW c \in Calls, Finish(c) \/ DropErr(c) PROVE TypeOK'
  BY <1>5 DEF Finish, DropErr, Done, Goto, poolVars, serverVars, stopVars
<1>6. ASSUME NEW c \in Calls, DropOk(c) PROVE TypeOK'
  BY <1>6 DEF DropOk, DropDone, Goto, poolVars, stopVars
<1>7. ASSUME NEW c \in Calls, QueryTimeout(c) PROVE TypeOK'
  <2>1. CASE UNCHANGED serverVars
    BY <1>7, <2>1 DEF QueryTimeout, Done, Goto, poolVars, serverVars, stopVars
  <2>2. CASE DropDone(c)
    BY <1>7, <2>2 DEF QueryTimeout, DropDone, Done, Goto, poolVars, stopVars
  <2> QED
    BY <1>7, <2>1, <2>2 DEF QueryTimeout
<1>8. ASSUME NEW c \in Calls, Invalidate(c) PROVE TypeOK'
  BY <1>8 DEF Invalidate, Discard, Done, Goto, stopVars
<1>9. ASSUME NEW d \in Dbs, Evict(d) \/ CreateDatabase(d) PROVE TypeOK'
  BY <1>9 DEF Evict, Discard, CreateDatabase, callVars, poolVars, serverVars, stopVars
<1>10. ASSUME NEW p \in Calls, CloserRuns(p) \/ Drain(p) PROVE TypeOK'
  BY <1>10 DEF CloserRuns, Drain, callVars, serverVars, stopVars
<1>11. ASSUME ShutdownBegin \/ Shutdown \/ Exit PROVE TypeOK'
  BY <1>11 DEF ShutdownBegin, Shutdown, ShutdownVisit, ShutdownNext, ShutdownEnd, Exit,
     vars, callVars, poolVars, serverVars, stopVars
<1> QED
  BY <1>0, <1>1, <1>2, <1>3, <1>4, <1>5, <1>6, <1>7, <1>8, <1>9, <1>10, <1>11
  DEF Next, Step, Statement

(* Pools are created once, cached under one name, and leave the cache for  *)
(* the closers.                                                            *)
LEMMA PoolStep ==
  TypeOK /\ PoolInv /\ NoPoolLeaks /\ [Next]_vars => PoolInv' /\ NoPoolLeaks'
<1> SUFFICES ASSUME TypeOK, PoolInv, NoPoolLeaks, [Next]_vars
             PROVE  PoolInv' /\ NoPoolLeaks'
  OBVIOUS
<1> USE CallsAssumption, DbsAssumption DEF TypeOK, PoolInv, NoPoolLeaks, Cached, Early
<1>0. CASE UNCHANGED vars
  BY <1>0 DEF vars, callVars, poolVars, serverVars, stopVars
<1>1. ASSUME NEW c \in Calls, NEW k \in {"query", "drop"}, NEW d \in Dbs, Call(c, k, d)
      PROVE  PoolInv' /\ NoPoolLeaks'
  BY <1>1 DEF Call, Done, Goto, poolVars, serverVars, stopVars
<1>2. ASSUME NEW c \in Calls, Get(c) PROVE PoolInv' /\ NoPoolLeaks'
  BY <1>2 DEF Get, Use, Goto, Target, poolVars, serverVars, stopVars
<1>3. ASSUME NEW c \in Calls, GetWith(c) PROVE PoolInv' /\ NoPoolLeaks'
  BY <1>3 DEF GetWith, Use, Goto, Target, poolVars, serverVars, stopVars
<1>4. ASSUME NEW c \in Calls, Acquire(c) \/ AcquireErr(c) PROVE PoolInv' /\ NoPoolLeaks'
  BY <1>4 DEF Acquire, AcquireErr, Done, Goto, poolVars, serverVars, stopVars
<1>5. ASSUME NEW c \in Calls, Statement(c) PROVE PoolInv' /\ NoPoolLeaks'
  BY <1>5 DEF Statement, Finish, DropOk, DropErr, Done, Goto, poolVars, serverVars, stopVars
<1>6. ASSUME NEW c \in Calls, QueryTimeout(c) PROVE PoolInv' /\ NoPoolLeaks'
  BY <1>6 DEF QueryTimeout, Done, Goto, poolVars, stopVars
<1>7. ASSUME NEW c \in Calls, Invalidate(c) PROVE PoolInv' /\ NoPoolLeaks'
  BY <1>7 DEF Invalidate, Discard, Done, Goto, stopVars
<1>8. ASSUME NEW d \in Dbs, Evict(d) PROVE PoolInv' /\ NoPoolLeaks'
  BY <1>8 DEF Evict, Discard, callVars, serverVars, stopVars
<1>9. ASSUME NEW d \in Dbs, CreateDatabase(d) PROVE PoolInv' /\ NoPoolLeaks'
  BY <1>9 DEF CreateDatabase, callVars, poolVars, stopVars
<1>10. ASSUME NEW p \in Calls, CloserRuns(p) \/ Drain(p) PROVE PoolInv' /\ NoPoolLeaks'
  BY <1>10 DEF CloserRuns, Drain, callVars, serverVars, stopVars
<1>11. ASSUME NEW d \in Dbs, ShutdownVisit(d) PROVE PoolInv' /\ NoPoolLeaks'
  BY <1>11 DEF ShutdownVisit, callVars, serverVars
<1>12. CASE ShutdownBegin \/ ShutdownNext \/ ShutdownEnd \/ Exit
  BY <1>12 DEF ShutdownBegin, ShutdownNext, ShutdownEnd, Exit,
     vars, callVars, poolVars, serverVars, stopVars
<1> QED
  BY <1>0, <1>1, <1>2, <1>3, <1>4, <1>5, <1>6, <1>7, <1>8, <1>9, <1>10, <1>11, <1>12
  DEF Next, Step, Statement, Shutdown

(* A call's pool was resolved after the call was made, from a cache that   *)
(* holds nothing older than the last answered drop.                        *)
LEMMA AgeStep ==
  TypeOK /\ PoolInv /\ AgeInv /\ FreshAfterDrop /\ [Next]_vars => AgeInv' /\ FreshAfterDrop'
<1> SUFFICES ASSUME TypeOK, PoolInv, AgeInv, FreshAfterDrop, [Next]_vars
             PROVE  AgeInv' /\ FreshAfterDrop'
  OBVIOUS
<1> USE CallsAssumption, DbsAssumption DEF TypeOK, PoolInv, AgeInv, FreshAfterDrop, Early
<1>0. CASE UNCHANGED vars
  BY <1>0 DEF vars, callVars, poolVars, serverVars, stopVars
<1>1. ASSUME NEW c \in Calls, NEW k \in {"query", "drop"}, NEW d \in Dbs, Call(c, k, d)
      PROVE  AgeInv' /\ FreshAfterDrop'
  BY <1>1 DEF Call, Done, Goto, poolVars, serverVars, stopVars
<1>2. ASSUME NEW c \in Calls, Get(c) PROVE AgeInv' /\ FreshAfterDrop'
  BY <1>2 DEF Get, Use, Goto, Target, poolVars, serverVars, stopVars
<1>3. ASSUME NEW c \in Calls, GetWith(c) PROVE AgeInv' /\ FreshAfterDrop'
  BY <1>3 DEF GetWith, Use, Goto, Target, poolVars, serverVars, stopVars
<1>4. ASSUME NEW c \in Calls, Acquire(c) \/ AcquireErr(c) PROVE AgeInv' /\ FreshAfterDrop'
  BY <1>4 DEF Acquire, AcquireErr, Done, Goto, poolVars, serverVars, stopVars
<1>5. ASSUME NEW c \in Calls, Finish(c) \/ DropErr(c) PROVE AgeInv' /\ FreshAfterDrop'
  BY <1>5 DEF Finish, DropErr, Done, Goto, poolVars, serverVars, stopVars
<1>6. ASSUME NEW c \in Calls, DropOk(c) PROVE AgeInv' /\ FreshAfterDrop'
  BY <1>6 DEF DropOk, DropDone, Goto, poolVars, stopVars
<1>7. ASSUME NEW c \in Calls, QueryTimeout(c) PROVE AgeInv' /\ FreshAfterDrop'
  <2>1. CASE UNCHANGED serverVars
    BY <1>7, <2>1 DEF QueryTimeout, Done, Goto, poolVars, serverVars, stopVars
  <2>2. CASE DropDone(c)
    BY <1>7, <2>2 DEF QueryTimeout, DropDone, Done, Goto, poolVars, stopVars
  <2> QED
    BY <1>7, <2>1, <2>2 DEF QueryTimeout
<1>8. ASSUME NEW c \in Calls, Invalidate(c) PROVE AgeInv' /\ FreshAfterDrop'
  BY <1>8 DEF Invalidate, Discard, Done, Goto, stopVars
<1>9. ASSUME NEW d \in Dbs, Evict(d) PROVE AgeInv' /\ FreshAfterDrop'
  BY <1>9 DEF Evict, Discard, callVars, serverVars, stopVars
<1>10. ASSUME NEW d \in Dbs, CreateDatabase(d) PROVE AgeInv' /\ FreshAfterDrop'
  BY <1>10 DEF CreateDatabase, callVars, poolVars, stopVars
<1>11. ASSUME NEW p \in Calls, CloserRuns(p) \/ Drain(p) PROVE AgeInv' /\ FreshAfterDrop'
  BY <1>11 DEF CloserRuns, Drain, callVars, serverVars, stopVars
<1>12. CASE ShutdownBegin \/ Shutdown \/ Exit
  BY <1>12 DEF ShutdownBegin, Shutdown, ShutdownVisit, ShutdownNext, ShutdownEnd, Exit,
     vars, callVars, poolVars, serverVars, stopVars
<1> QED
  BY <1>0, <1>1, <1>2, <1>3, <1>4, <1>5, <1>6, <1>7, <1>8, <1>9, <1>10, <1>11, <1>12
  DEF Next, Step, Statement

(* The inductive invariant holds in every reachable state. *)
THEOREM Invariant == Spec => []Inv
<1>1. Init => Inv
  BY CallsAssumption, DbsAssumption
  DEF Init, Inv, TypeOK, PoolInv, NoPoolLeaks, AgeInv, FreshAfterDrop, Early
<1>2. Inv /\ [Next]_vars => Inv'
  BY TypeStep, PoolStep, AgeStep DEF Inv
<1> QED
  BY <1>1, <1>2, PTL DEF Spec

(* Every reachable state is well typed. *)
THEOREM TypeCorrect == Spec => []TypeOK
BY Invariant, PTL DEF Inv

(* Until the shutdown the cache hands out only open pools nobody is about  *)
(* to close, one per database.                                             *)
THEOREM CachedPoolsAlwaysUsable == Spec => []CachedPoolsUsable
<1>1. Inv => CachedPoolsUsable
  BY DEF Inv, PoolInv, CachedPoolsUsable
<1> QED
  BY <1>1, Invariant, PTL

(* However many calls miss at once, no open pool is ever outside the cache *)
(* and the close tasks.                                                    *)
THEOREM NeverLeaks == Spec => []NoPoolLeaks
BY Invariant, PTL DEF Inv

(* No query made after dropDatabase returned success runs on a pool older  *)
(* than that drop, for any number of drops and re-creations.               *)
THEOREM AlwaysFreshAfterDrop == Spec => []FreshAfterDrop
BY Invariant, PTL DEF Inv
=============================================================================
