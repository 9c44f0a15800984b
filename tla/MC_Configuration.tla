-------------------------- MODULE MC_Configuration --------------------------
(* The configuration files on small instances; connections are alike. *)
EXTENDS Configuration, TLC
ConnSymmetry == Permutations(Conns)
=============================================================================
