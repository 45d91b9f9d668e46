----------------------------- MODULE MCPoolCache -----------------------------
(* PoolCache for TLC, from the states in which one call has returned and   *)
(* left its pool in the cache: the pool of a database that is dropped must *)
(* be somebody else's, and two live calls race over it.                    *)
EXTENDS PoolCache

CONSTANT First  \* the call that has returned

WarmInit ==
  LET d == CHOOSE x \in Dbs : x # Default IN
    /\ pc = [c \in Calls |-> IF c = First THEN "done" ELSE "idle"]
    /\ kind = [c \in Calls |-> "query"]
    /\ db = [c \in Calls |-> IF c = First THEN d ELSE Default]
    /\ using = [c \in Calls |-> IF c = First THEN First ELSE NoPool]
    /\ result = [c \in Calls |-> IF c = First THEN "ok" ELSE "none"]
    /\ floor = [c \in Calls |-> 0]
    /\ mine = [c \in Calls |-> 0]
    /\ cache = [e \in Dbs |-> IF e = d THEN First ELSE NoPool]
    /\ pool = [p \in Calls |-> IF p = First THEN "open" ELSE "none"]
    /\ closers = {}
    /\ born = [p \in Calls |-> 0]
    /\ exists = [e \in Dbs |-> TRUE]
    /\ drops = [e \in Dbs |-> 0]
    /\ returned = [e \in Dbs |-> 0]
    /\ shutdown = "no"
    /\ unvisited = {}
    /\ awaiting = NoPool

WarmSpec == WarmInit /\ [][Next]_vars /\ Fairness
=============================================================================
