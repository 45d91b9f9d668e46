------------------------------ MODULE MCPiiLeaf ------------------------------
(* PiiLeaf for TLC: three characters, one of them of two bytes. *)
EXTENDS PiiLeaf, TLC
MCChars == {0, 1, 3}
EntitySymmetry == Permutations(RegexEntities)
=============================================================================
