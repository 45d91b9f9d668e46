---------------------------- MODULE MCQueryTools ----------------------------
(* QueryTools for TLC: a pinned database, or none in PostgreSQL's          *)
(* read-only and MySQL's read-write mode.                                  *)
EXTENDS QueryTools, TLC

CONSTANTS c1, c2, k1, main, other

MCHome == (k1 :> main)
MCConfigs ==
  {[backend |-> b, readOnly |-> r, timeout |-> TRUE, default |-> main,
    pinned |-> <<b, r>> \notin {<<"postgres", TRUE>>, <<"mysql", FALSE>>}] :
     b \in {"mysql", "postgres", "sqlite"}, r \in BOOLEAN}
CallSymmetry == Permutations(Calls)
=============================================================================
