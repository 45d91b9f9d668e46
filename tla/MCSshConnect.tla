---------------------------- MODULE MCSshConnect ----------------------------
(* SshConnect for TLC: keys of two algorithms, processes that are alike. *)
EXTENDS SshConnect, TLC
CONSTANTS p1, p2, ed, rsa
Two == {p1, p2}
MCKeys == {ed, rsa}
MCTypeOf == ed :> 1 @@ rsa :> 2
MCLogin == [p \in Procs |-> {"key", "password"}]
Alike == Permutations(Procs)
MCModes == {"yes", "accept-new", "no"}
MCUserLines ==
  {[marker |-> "none", key |-> k, matches |-> {"host"}] : k \in {ed, rsa}}
  \cup {[marker |-> "revoked", key |-> rsa, matches |-> {"host"}],
        [marker |-> "cert-authority", key |-> ed, matches |-> {"host"}],
        [marker |-> "none", key |-> ed, matches |-> {"host", "!host"}]}
=============================================================================
